---- MODULE Spec2Model ----
(***************************************************************************)
(* OpenFeeder sidecar: the ingestion-and-serving pipeline of               *)
(* src/sidecar (main.py, indexer.py, sync_utils.py).                       *)
(*                                                                         *)
(* The process is one asyncio event loop.  A coroutine runs alone between  *)
(* two awaits, so every action below is one such segment of a handler or   *)
(* task: it starts where the coroutine is resumed and ends at its next     *)
(* await (an outbound GET) or at its return.  indexer.* and sync_utils.*   *)
(* are synchronous calls and never yield.                                  *)
(*                                                                         *)
(* Time is the wall clock read by time.time() and datetime.now(); it never *)
(* goes back and two reads may return the same value.                      *)
(***************************************************************************)
EXTENDS Integers, Sequences, FiniteSets, TLC

\* ------------------------------------------------------------------------
\* Bounds of the model
\* ------------------------------------------------------------------------

\* The clock runs from 1 to MaxTime (time.time() is positive).
MaxTime == 2

\* The page limit of a crawl: MAX_PAGES, 500 by default (main.py:54), scaled
\* down so that a crawl reaches it.
MAX_PAGES == 2

\* The number of page records of the index that index mode is asked for.
MaxIndex == 3

\* The depth at which Python raises RecursionError (about 1000 frames),
\* scaled down.
RecursionLimit == 2

\* A parsed page has 0..MaxChunks chunks.
MaxChunks == 2

\* The FIFO cap of the tombstone map: 1000 in sync_utils.py:77, scaled down
\* so that the map overflows.
TOMBSTONE_CAP == 2

\* The inline limit of the webhook: 10 in main.py:506, scaled down so that
\* a batch can exceed it.
INLINE_LIMIT == 1

\* ------------------------------------------------------------------------
\* The site and its URLs
\* ------------------------------------------------------------------------

SITE_URL == "https://example.com"

\* Relative paths a webhook can name.  The site serves the first two; the
\* others answer 404.
Paths == <<"/a", "/c", "/gone", "/old">>

PathSet == {Paths[i] : i \in 1..Len(Paths)}

\* main.py:442  SITE_URL.rstrip("/") + "/" + relative_url.lstrip("/")
full_url(relative_url) == SITE_URL \o relative_url

Urls == {full_url(p) : p \in PathSet}

\* The order in which a collection scan returns the records (insertion
\* order of the backing store is not modelled: the scans below are used
\* for sets of records only).
UrlOrder == [i \in 1..Len(Paths) |-> full_url(Paths[i])]

\* indexer.py:384-387  sha256("<url>::chunk::<i>").hexdigest()[:16].  The ids
\* are kept as the number made of their first four hex digits, which orders
\* them like the strings.
_make_id(url, chunk_index) ==
    LET a    == <<6658, 13958, 56750, 31254>>
        c    == <<26955, 23250, 7463, 43541>>
        gone == <<26361, 34105, 37607, 8866>>
        old  == <<26182, 46311, 1154, 44520>>
    IN  IF url = full_url("/a") THEN a[chunk_index + 1]
        ELSE IF url = full_url("/c") THEN c[chunk_index + 1]
        ELSE IF url = full_url("/gone") THEN gone[chunk_index + 1]
        ELSE old[chunk_index + 1]

\* ------------------------------------------------------------------------
\* State
\* ------------------------------------------------------------------------

VARIABLES
    now,            \* the wall clock
    chunks_col,     \* Indexer._chunks_col: set of chunk records
    pages_col,      \* Indexer._pages_col: url -> page record
    tombstones,     \* sync_utils._tombstones: ordered dict, as a sequence
    disk,           \* the contents of TOMBSTONE_PATH
    crawl_running,  \* main._crawl_running
    last_crawl_ts,  \* main._last_crawl_ts
    crawl,          \* the run_crawl tasks: trigger -> [pc, pages]
    wh,             \* the webhook request being served
    client,         \* a sync client: the token it kept
    hist,           \* history: first ingest of each url
    resp,           \* the HTTP response sent by the last step
    WEBHOOK_SECRET, \* main.WEBHOOK_SECRET, read from the environment
    auth_header,    \* the Authorization header of the last webhook request
    crawler         \* a call of crawler.crawl: its locals and the GETs issued

vars == <<now, chunks_col, pages_col, tombstones, disk, crawl_running,
          last_crawl_ts, crawl, wh, client, hist, resp, WEBHOOK_SECRET,
          auth_header, crawler>>

NoResp == [kind |-> "none"]

\* None of Python, for the optional timestamps.
None == -1

\* No webhook has been processed for a url.
Untouched == None - 1

Times == 1..MaxTime

\* ------------------------------------------------------------------------
\* Timestamps as strings, and the sync token (sync_utils.py)
\* ------------------------------------------------------------------------

\* datetime.now(timezone.utc).isoformat(): the string that denotes instant t.
isoformat(t) == [kind |-> "iso", t |-> t]

\* datetime.fromisoformat(s).timestamp(), None where fromisoformat raises.
\* "iso" is an RFC 3339 datetime; "date" is a string of another ISO 8601
\* form that fromisoformat takes as well, such as the date "2024-01-01".
fromisoformat_timestamp(s) == IF s.kind \in {"iso", "date"} THEN s.t ELSE None

\* The date of the instant t, without time and offset.
DateOnly(t) == [kind |-> "date", t |-> t]

\* The instant t as an ISO 8601 timestamp with an ordinal date, such as
\* "2024-001T00:00:00Z": datetime.fromisoformat raises ValueError on it, as
\* on a leap second ("2016-12-31T23:59:60Z") and on "T24:00:00".
Ordinal(t) == [kind |-> "ordinal", t |-> t]

\* sync_utils.py:25-28  base64(json.dumps({"t": as_of_iso}))
encode_sync_token(as_of_iso) == [kind |-> "token", payload |-> as_of_iso]

\* sync_utils.py:31-38
decode_sync_token(token) ==
    IF token.kind = "token" THEN fromisoformat_timestamp(token.payload) ELSE None

\* parse_since that does not try the value as a sync token (no
\* sync_utils.py:49-50).
parse_since_datetime_only(raw) == fromisoformat_timestamp(raw)

\* sync_utils.py:41-50
parse_since(raw) ==
    IF fromisoformat_timestamp(raw) # None
    THEN fromisoformat_timestamp(raw)
    ELSE decode_sync_token(raw)

\* ISO 8601 timestamps of the instants 0..MaxTime in three forms: as
\* isoformat() writes them, as a date, and with an ordinal date.
Timestamps ==
    UNION {{isoformat(t), DateOnly(t), Ordinal(t)} : t \in 0..MaxTime}

\* test_sidecar.py:95-124: a timestamp is encoded and the token decoded, and
\* parse_since is applied to a value.
test_sync_token(iso, raw) ==
    /\ LET token == encode_sync_token(iso)
       IN  resp' = [kind |-> "sync_token", iso |-> iso, token |-> token,
                    ts |-> decode_sync_token(token),
                    raw |-> raw, parsed |-> parse_since(raw)]
    /\ UNCHANGED <<WEBHOOK_SECRET, crawler, auth_header,
                   now, chunks_col, pages_col, tombstones, disk,
                   crawl_running, last_crawl_ts, crawl, wh, client, hist>>

\* ------------------------------------------------------------------------
\* The vector index (indexer.py)
\* ------------------------------------------------------------------------

\* A page as the site serves it is one of its revisions; revision r parses
\* (chunk_html) into r chunks, and the text of its chunk i is <<r, i>>.
Revisions == 0..MaxChunks

ParsedPage(url, rev) == [url |-> url, rev |-> rev, chunks |-> rev]

ChunkText(rev, i) == <<rev, i>>

\* indexer.py:169-174
_delete_page(cc, url) == {c \in cc : c.url # url}

\* index_page that removes the page record of a page without chunks
\* (a delete of the record added before indexer.py:93).
index_page_dropping(cc, pg, page, t, raises) ==
    LET first_indexed_at ==
            IF page.url \in DOMAIN pg THEN pg[page.url].first_indexed_at ELSE t
        cleared == _delete_page(cc, page.url)
    IN  IF page.chunks = 0
        THEN [chunks_col |-> cleared,
              pages_col |-> [u \in DOMAIN pg \ {page.url} |-> pg[u]],
              raised |-> FALSE]
        ELSE IF raises
        THEN [chunks_col |-> cleared, pages_col |-> pg, raised |-> TRUE]
        ELSE [chunks_col |->
                  cleared \cup
                  {[id |-> _make_id(page.url, i), url |-> page.url,
                    chunk_index |-> i, text |-> ChunkText(page.rev, i)] :
                       i \in 0..(page.chunks - 1)},
              pages_col |->
                  (page.url :> [url |-> page.url, rev |-> page.rev,
                                chunk_count |-> page.chunks,
                                first_indexed_at |-> first_indexed_at,
                                indexed_at |-> t]) @@ pg,
              raised |-> FALSE]

\* index_page that stamps first_indexed_at anew on every ingest
\* (indexer.py:82-87 replaced by first_indexed_at = now).
index_page_restamping(cc, pg, page, t, raises) ==
    LET cleared == _delete_page(cc, page.url)
    IN  IF page.chunks = 0
        THEN [chunks_col |-> cleared, pages_col |-> pg, raised |-> FALSE]
        ELSE IF raises
        THEN [chunks_col |-> cleared, pages_col |-> pg, raised |-> TRUE]
        ELSE [chunks_col |->
                  cleared \cup
                  {[id |-> _make_id(page.url, i), url |-> page.url,
                    chunk_index |-> i, text |-> ChunkText(page.rev, i)] :
                       i \in 0..(page.chunks - 1)},
              pages_col |->
                  (page.url :> [url |-> page.url, rev |-> page.rev,
                                chunk_count |-> page.chunks,
                                first_indexed_at |-> t,
                                indexed_at |-> t]) @@ pg,
              raised |-> FALSE]

\* indexer.py:74-148.  raises: the embedding or the chunk upsert raised.
index_page(cc, pg, page, t, raises) ==
    LET first_indexed_at ==
            IF page.url \in DOMAIN pg THEN pg[page.url].first_indexed_at ELSE t
        cleared == _delete_page(cc, page.url)
    IN  IF page.chunks = 0
        THEN [chunks_col |-> cleared, pages_col |-> pg, raised |-> FALSE]
        ELSE IF raises
        THEN [chunks_col |-> cleared, pages_col |-> pg, raised |-> TRUE]
        ELSE [chunks_col |->
                  cleared \cup
                  {[id |-> _make_id(page.url, i), url |-> page.url,
                    chunk_index |-> i, text |-> ChunkText(page.rev, i)] :
                       i \in 0..(page.chunks - 1)},
              pages_col |->
                  (page.url :> [url |-> page.url, rev |-> page.rev,
                                chunk_count |-> page.chunks,
                                first_indexed_at |-> first_indexed_at,
                                indexed_at |-> t]) @@ pg,
              raised |-> FALSE]

\* delete_page that removes the chunks only (indexer.py:163-166 left out).
delete_page_chunks_only(cc, pg, url) ==
    [chunks_col |-> _delete_page(cc, url), pages_col |-> pg]

\* indexer.py:157-167
delete_page(cc, pg, url) ==
    [chunks_col |-> _delete_page(cc, url),
     pages_col |-> [u \in DOMAIN pg \ {url} |-> pg[u]]]

\* indexer.py:250-258
NoMeta == [found |-> FALSE]

get_page_meta(pg, url) == IF url \in DOMAIN pg THEN pg[url] ELSE NoMeta

RECURSIVE SortById(_)
SortById(S) ==
    IF S = {} THEN <<>>
    ELSE LET m == CHOOSE c \in S : \A d \in S : c.id <= d.id
         IN  <<m>> \o SortById(S \ {m})

\* indexer.py:222-248.  The store returns the first `limit` matching records;
\* the chunks of one url are inserted together in index order.
get_chunks_for_url(cc, url, limit) ==
    LET got == {c \in cc : c.url = url /\
                    Cardinality({d \in cc : d.url = url /\
                                    d.chunk_index < c.chunk_index}) < limit}
        sorted == SortById(got)
    IN  [i \in 1..Len(sorted) |->
            [id |-> sorted[i].id, text |-> sorted[i].text]]

\* The scan with the classification of the docstring (indexer.py:348-349):
\* a page is also "added" when since_ts is None.
RECURSIVE ScanPagesAddedWithoutSince(_, _, _, _, _)
ScanPagesAddedWithoutSince(pg, order, since_ts, until_ts, k) ==
    IF k > Len(order) THEN [added |-> <<>>, updated |-> <<>>]
    ELSE LET rest == ScanPagesAddedWithoutSince(pg, order, since_ts,
                                                until_ts, k + 1)
             u    == order[k]
         IN  IF u \notin DOMAIN pg THEN rest
             ELSE IF since_ts # None /\ pg[u].indexed_at < since_ts THEN rest
             ELSE IF until_ts # None /\ pg[u].indexed_at > until_ts THEN rest
             ELSE LET page_obj == [url |-> u, rev |-> pg[u].rev]
                  IN  IF since_ts = None \/ pg[u].first_indexed_at >= since_ts
                      THEN [rest EXCEPT !.added = <<page_obj>> \o @]
                      ELSE [rest EXCEPT !.updated = <<page_obj>> \o @]

\* indexer.py:351-377  the loop over the page records.
RECURSIVE ScanPages(_, _, _, _, _)
ScanPages(pg, order, since_ts, until_ts, k) ==
    IF k > Len(order) THEN [added |-> <<>>, updated |-> <<>>]
    ELSE LET rest == ScanPages(pg, order, since_ts, until_ts, k + 1)
             u    == order[k]
         IN  IF u \notin DOMAIN pg THEN rest
             ELSE IF since_ts # None /\ pg[u].indexed_at < since_ts THEN rest
             ELSE IF until_ts # None /\ pg[u].indexed_at > until_ts THEN rest
             ELSE LET page_obj == [url |-> u, rev |-> pg[u].rev]
                  IN  IF since_ts # None /\ pg[u].first_indexed_at >= since_ts
                      THEN [rest EXCEPT !.added = <<page_obj>> \o @]
                      ELSE [rest EXCEPT !.updated = <<page_obj>> \o @]

\* get_pages_in_range that ignores the upper bound (indexer.py:362-363 left
\* out).
get_pages_in_range_unbounded(pg, since_ts, until_ts) ==
    ScanPages(pg, UrlOrder, since_ts, None, 1)

\* indexer.py:339-377
get_pages_in_range(pg, since_ts, until_ts) ==
    ScanPages(pg, UrlOrder, since_ts, until_ts, 1)

\* ------------------------------------------------------------------------
\* The tombstone store (sync_utils.py)
\* ------------------------------------------------------------------------

\* sorted(items, key=deleted_at): stable, ascending.  The keys are the
\* isoformat strings of UTC instants, which order like the instants.
RECURSIVE SortedItems(_)
SortedItems(ts) ==
    IF ts = <<>> THEN <<>>
    ELSE LET rest == SortedItems(Tail(ts))
             h    == Head(ts)
             k    == Cardinality({i \in 1..Len(rest) :
                                     rest[i].deleted_at.t < h.deleted_at.t})
         IN  SubSeq(rest, 1, k) \o <<h>> \o SubSeq(rest, k + 1, Len(rest))

\* The cap keeping the oldest entries (sorted_items[:1000] for
\* sorted_items[-1000:]).
CapTombstonesOldest(ts) ==
    IF Len(ts) > TOMBSTONE_CAP
    THEN SubSeq(SortedItems(ts), 1, TOMBSTONE_CAP)
    ELSE ts

\* sync_utils.py:77-79  the FIFO cap of _save_tombstones
CapTombstones(ts) ==
    IF Len(ts) > TOMBSTONE_CAP
    THEN SubSeq(SortedItems(ts), Len(ts) - TOMBSTONE_CAP + 1, Len(ts))
    ELSE ts

\* What the file system does to one _save_tombstones: "makedirs_raises"
\* (os.makedirs raises, outside the try: the OSError leaves the function),
\* "open_raises" (the file is left as it was) and "dump_raises" (a truncated
\* file, which _load_tombstones reads as {}); the last two are caught and
\* logged as a warning.
IOOutcomes == {"ok", "makedirs_raises", "open_raises", "dump_raises"}

\* sync_utils.py:72-85
_save_tombstones(ts, dk, io) ==
    LET capped == CapTombstones(ts)
    IN  [tombstones |-> capped,
         disk |-> IF io = "ok" THEN capped
                  ELSE IF io = "dump_raises" THEN <<>> ELSE dk,
         warned |-> io \in {"open_raises", "dump_raises"},
         raised |-> io = "makedirs_raises"]

\* sync_utils.py:90  _tombstones[url] = ...: an existing key keeps its place.
SetItem(ts, url, deleted_at) ==
    IF \E i \in 1..Len(ts) : ts[i].url = url
    THEN [i \in 1..Len(ts) |->
             IF ts[i].url = url
             THEN [url |-> url, deleted_at |-> deleted_at] ELSE ts[i]]
    ELSE Append(ts, [url |-> url, deleted_at |-> deleted_at])

\* add_tombstone that sets the entry and does not save (sync_utils.py:91
\* left out).
add_tombstone_unsaved(ts, dk, url, t, io) ==
    [tombstones |-> SetItem(ts, url, isoformat(t)), disk |-> dk,
     warned |-> FALSE, raised |-> FALSE]

\* sync_utils.py:88-91
add_tombstone(ts, dk, url, t, io) ==
    _save_tombstones(SetItem(ts, url, isoformat(t)), dk, io)

\* sync_utils.py:61-69
_load_tombstones(dk) == dk

\* get_tombstones_since without its filter (sync_utils.py:100 left out).
get_tombstones_since_unfiltered(ts, since_ts) == ts

\* sync_utils.py:94-104
get_tombstones_since(ts, since_ts) ==
    SelectSeq(ts, LAMBDA e : fromisoformat_timestamp(e.deleted_at) >= since_ts)

\* ------------------------------------------------------------------------
\* Initial state: the process has started (lifespan, main.py:129-146) on an
\* empty /data volume: no index, no tombstone file, the initial crawl task
\* created and not yet run.
\* ------------------------------------------------------------------------

Triggers == {"startup", "interval", "manual"}

\* The URLs a crawl fetches, in queue order: the pages the site serves.
CrawlQueue == <<full_url("/a"), full_url("/c")>>

IdleCrawl == [pc |-> "off", pages |-> <<>>, j |-> 1]

IdleWebhook ==
    [pc |-> "idle", action |-> "none", urls |-> <<>>, i |-> 1,
     processed |-> 0, errors |-> <<>>, inline |-> TRUE, started |-> 0,
     warned |-> FALSE]

NoClient == [token |-> [kind |-> "absent"], as_of |-> 0, dirty |-> {}]

\* record: the history the run keeps for the properties that read it,
\* "first" (the first ingest of each url) and "ingests" (the last two
\* ingests of each url).
\* crawl() has not been called.
NotCalled ==
    [pc |-> "idle", queue |-> <<>>, visited |-> {}, idx |-> 0,
     pages |-> <<>>, errors |-> <<>>, fetched |-> {}]

\* A request without an Authorization header: headers.get gives "".
NoHeader == <<>>

InitSecret(record, secrets) ==
    /\ WEBHOOK_SECRET \in secrets
    /\ auth_header = NoHeader
    /\ crawler = NotCalled
    /\ now = 1
    /\ chunks_col = {}
    /\ pages_col = <<>>
    /\ tombstones = _load_tombstones(<<>>)
    /\ disk = <<>>
    /\ crawl_running = FALSE
    /\ last_crawl_ts = 0
    /\ crawl = [k \in Triggers |->
                   IF k = "startup" THEN [IdleCrawl EXCEPT !.pc = "scheduled"]
                   ELSE IdleCrawl]
    /\ wh = IdleWebhook
    /\ client = NoClient
    /\ hist = [record |-> record, first |-> <<>>,
               prev |-> [u \in Urls |-> None], last |-> [u \in Urls |-> None],
               webhook |-> [u \in Urls |-> Untouched]]
    /\ resp = NoResp

\* OPENFEEDER_WEBHOOK_SECRET is not set.
InitWith(record) == InitSecret(record, {""})

Init == InitSecret({"first", "ingests"}, {"", "s3cret"})

\* The event loop is free: no coroutine is inside a synchronous loop that
\* the model takes in several steps.
Yielded ==
    /\ wh.pc # "delete"
    /\ \A k \in Triggers : crawl[k].pc # "indexing"

\* What an outbound GET of a url can come back with: the page in one of its
\* revisions, an HTTP error status, or an exception of the client.
GetOutcomes(url) ==
    IF url \notin {full_url("/a"), full_url("/c")}
    THEN {[status |-> 404, rev |-> 0], [status |-> 0, rev |-> 0]}
    ELSE {[status |-> 200, rev |-> r] : r \in Revisions}
         \cup {[status |-> 404, rev |-> 0], [status |-> 0, rev |-> 0]}

Outcomes == UNION {GetOutcomes(url) : url \in Urls}

\* History kept for the properties: the instant of the first ingest that
\* created a page record of the url, the revisions of the last two ingests
\* of the url, and the urls changed since the client took its token.
NoteIngest(h, url, rev, t, created) ==
    [record |-> h.record,
     first |-> IF "first" \in h.record /\ created /\ url \notin DOMAIN h.first
               THEN (url :> t) @@ h.first ELSE h.first,
     prev  |-> IF "ingests" \in h.record
               THEN [h.prev EXCEPT ![url] = h.last[url]] ELSE h.prev,
     last  |-> IF "ingests" \in h.record
               THEN [h.last EXCEPT ![url] = rev] ELSE h.last,
     webhook |-> h.webhook]

\* The revision of the page record of url, None if it has none.
IndexState(pg, url) == IF url \in DOMAIN pg THEN pg[url].rev ELSE None

\* History "race": for each url, the index state that a webhook processed
\* during the running crawl left, Untouched if there was none since the
\* crawl last fetched the url.
NoteWebhook(h, running, url, state) ==
    IF "race" \in h.record /\ running
    THEN [h EXCEPT !.webhook[url] = state] ELSE h

NoteFetch(h, url) ==
    IF "race" \in h.record THEN [h EXCEPT !.webhook[url] = Untouched] ELSE h

NoteCrawlEnd(h) == [h EXCEPT !.webhook = [u \in Urls |-> Untouched]]

MarkDirty(cl, url) ==
    IF cl.token.kind = "absent" THEN cl
    ELSE [cl EXCEPT !.dirty = @ \cup {url}]

\* ------------------------------------------------------------------------
\* The clock
\* ------------------------------------------------------------------------

Tick ==
    /\ now < MaxTime
    /\ now' = now + 1
    /\ resp' = NoResp
    /\ UNCHANGED <<WEBHOOK_SECRET, crawler, auth_header,
                   chunks_col, pages_col, tombstones, disk, crawl_running,
                   last_crawl_ts, crawl, wh, client, hist>>

\* ------------------------------------------------------------------------
\* POST /openfeeder/update (main.py:479-519) and _process_update
\* (main.py:433-471)
\* ------------------------------------------------------------------------

Actions == {"upsert", "delete"}

\* The url lists of a request: 1..INLINE_LIMIT+1 distinct paths.
UrlLists ==
    {urls \in UNION {[1..n -> PathSet] : n \in 1..(INLINE_LIMIT + 1)} :
        \A i, j \in DOMAIN urls : i # j => urls[i] # urls[j]}

\* The UpdateResponse, with the request it answers and whether serving it
\* logged "Could not persist tombstones" (sync_utils.py:85).
UpdateResponse(status, processed, errors, action, urls, warned) ==
    [kind |-> "webhook", status |-> status, processed |-> processed,
     errors |-> errors, action |-> action, urls |-> urls, warned |-> warned]

\* An Authorization header is the sequence of its pieces; the header sent
\* is their concatenation.
RECURSIVE Join(_)
Join(pieces) ==
    IF pieces = <<>> THEN "" ELSE Head(pieces) \o Join(Tail(pieces))

Headers ==
    {NoHeader, <<"Bearer ", "s3cret">>, <<"Bearer ", "s3", "cret">>,
     <<"Bearer ", "wrong">>, <<"Bearer ">>, <<"Bearer ", "s3cret", " ">>,
     <<"Basic ", "s3cret">>, <<"bearer ", "s3cret">>, <<"s3cret">>}

\* header.startswith("Bearer ")
IsBearer(header) == header # <<>> /\ Head(header) = "Bearer "

\* _check_webhook_auth that takes any Bearer token (no main.py:429).
_check_webhook_auth_any_token(secret, header) ==
    IF secret = "" THEN 200
    ELSE IF ~IsBearer(header) THEN 401
    ELSE 200

\* main.py:420-430: 200 when the function returns, else the status of the
\* HTTPException it raises.
_check_webhook_auth(secret, header) ==
    IF secret = "" THEN 200
    ELSE IF ~IsBearer(header) THEN 401
    ELSE IF Join(Tail(header)) # secret THEN 403
    ELSE 200

\* The answer to a request that _check_webhook_auth refused.
HTTPException(status_code, header) ==
    [kind |-> "http_error", status |-> status_code, header |-> header]

\* webhook_update that processes every batch inline (main.py:508 always
\* true).
webhook_update_all_inline(header, action, urls) ==
    /\ Yielded
    /\ auth_header' = header
    /\ IF _check_webhook_auth(WEBHOOK_SECRET, header) # 200
       THEN /\ resp' = HTTPException(
                           _check_webhook_auth(WEBHOOK_SECRET, header), header)
            /\ UNCHANGED wh
       ELSE /\ wh.pc = "idle"
            /\ wh' = [pc |-> IF action = "delete" THEN "delete" ELSE "fetch",
                      action |-> action, urls |-> urls, i |-> 1,
                      processed |-> 0, errors |-> <<>>, inline |-> TRUE,
                      started |-> now, warned |-> FALSE]
            /\ resp' = NoResp
    /\ UNCHANGED <<WEBHOOK_SECRET, crawler, now, chunks_col, pages_col, tombstones,
                   disk, crawl_running, last_crawl_ts, crawl, client, hist>>

\* main.py:479-519, the request is received: it is refused by
\* _check_webhook_auth, or an inline batch enters _process_update at once,
\* or a larger one is handed to the background tasks and answered "queued".
webhook_update(header, action, urls) ==
    /\ Yielded
    /\ auth_header' = header
    /\ IF _check_webhook_auth(WEBHOOK_SECRET, header) # 200
       THEN /\ resp' = HTTPException(
                           _check_webhook_auth(WEBHOOK_SECRET, header), header)
            /\ UNCHANGED wh
       ELSE /\ wh.pc = "idle"
            /\ IF Len(urls) <= INLINE_LIMIT
               THEN /\ wh' = [pc |-> IF action = "delete" THEN "delete"
                                     ELSE "fetch",
                              action |-> action, urls |-> urls, i |-> 1,
                              processed |-> 0, errors |-> <<>>,
                              inline |-> TRUE, started |-> now,
                              warned |-> FALSE]
                    /\ resp' = NoResp
               ELSE /\ wh' = [pc |-> "queued", action |-> action,
                              urls |-> urls, i |-> 1, processed |-> 0,
                              errors |-> <<>>, inline |-> FALSE,
                              started |-> now, warned |-> FALSE]
                    /\ resp' = UpdateResponse("queued", 0, <<>>, action, urls,
                                              FALSE)
    /\ UNCHANGED <<WEBHOOK_SECRET, crawler, now, chunks_col, pages_col, tombstones,
                   disk, crawl_running, last_crawl_ts, crawl, client, hist>>

\* The background task of a queued batch starts _process_update.
process_update_start ==
    /\ Yielded
    /\ wh.pc = "queued"
    /\ wh' = [wh EXCEPT !.pc = IF wh.action = "delete" THEN "delete" ELSE "fetch",
                        !.started = now]
    /\ resp' = NoResp
    /\ UNCHANGED <<WEBHOOK_SECRET, crawler, auth_header,
                   now, chunks_col, pages_col, tombstones, disk,
                   crawl_running, last_crawl_ts, crawl, client, hist>>

\* The end of one turn of the loop over urls: the next url, or the return
\* of _process_update (and, inline, the response).
NextUrl(w) ==
    IF w.i < Len(w.urls)
    THEN /\ wh' = [w EXCEPT !.i = @ + 1]
         /\ resp' = NoResp
    ELSE /\ wh' = IdleWebhook
         /\ resp' = IF w.inline
                    THEN UpdateResponse("ok", w.processed, w.errors,
                                        w.action, w.urls, w.warned)
                    ELSE NoResp

\* main.py:444-448, 467-469: one url of a delete batch.  Nothing is awaited
\* between the urls, so the loop keeps the event loop until the batch is
\* done.
process_update_delete(io) ==
    /\ wh.pc = "delete"
    /\ LET url == full_url(wh.urls[wh.i])
           d   == delete_page(chunks_col, pages_col, url)
           a   == add_tombstone(tombstones, disk, url, now, io)
       IN  /\ chunks_col' = d.chunks_col
           /\ pages_col' = d.pages_col
           /\ tombstones' = a.tombstones
           /\ disk' = a.disk
           /\ client' = MarkDirty(client, url)
           /\ hist' = NoteWebhook(hist, crawl_running, url, None)
           /\ IF a.raised
              THEN NextUrl([wh EXCEPT !.errors = Append(@, url)])
              ELSE NextUrl([wh EXCEPT !.processed = @ + 1,
                                      !.warned = @ \/ a.warned])
    /\ UNCHANGED <<WEBHOOK_SECRET, crawler, auth_header,
                   now, crawl_running, last_crawl_ts, crawl>>

\* The upsert of one url that ends the batch at the first failure (the
\* try of main.py:443 around the loop instead of inside it).
process_update_upsert_aborting(out, raises) ==
    /\ Yielded
    /\ wh.pc = "fetch"
    /\ LET url  == full_url(wh.urls[wh.i])
           r    == index_page(chunks_col, pages_col, ParsedPage(url, out.rev),
                              now, raises)
           last == [wh EXCEPT !.i = Len(wh.urls)]
       IN  /\ out \in GetOutcomes(url)
           /\ IF out.status # 200
              THEN /\ NextUrl([last EXCEPT !.errors = Append(@, url)])
                   /\ UNCHANGED <<chunks_col, pages_col, client, hist>>
              ELSE /\ chunks_col' = r.chunks_col
                   /\ pages_col' = r.pages_col
                   /\ client' = MarkDirty(client, url)
                   /\ hist' = NoteWebhook(
                                  NoteIngest(hist, url, out.rev, now,
                                             out.rev > 0 /\ ~r.raised),
                                  crawl_running, url,
                                  IndexState(r.pages_col, url))
                   /\ IF r.raised
                      THEN NextUrl([last EXCEPT !.errors = Append(@, url)])
                      ELSE NextUrl([wh EXCEPT !.processed = @ + 1])
    /\ UNCHANGED <<WEBHOOK_SECRET, crawler, auth_header,
                   now, tombstones, disk, crawl_running, last_crawl_ts, crawl>>

\* main.py:450-469: the GET of one url of an upsert batch has come back.
process_update_upsert(out, raises) ==
    /\ Yielded
    /\ wh.pc = "fetch"
    /\ LET url == full_url(wh.urls[wh.i])
           r   == index_page(chunks_col, pages_col, ParsedPage(url, out.rev),
                             now, raises)
       IN  /\ out \in GetOutcomes(url)
           /\ IF out.status # 200
              THEN /\ NextUrl([wh EXCEPT !.errors = Append(@, url)])
                   /\ UNCHANGED <<chunks_col, pages_col, client, hist>>
              ELSE /\ chunks_col' = r.chunks_col
                   /\ pages_col' = r.pages_col
                   /\ client' = MarkDirty(client, url)
                   /\ hist' = NoteWebhook(
                                  NoteIngest(hist, url, out.rev, now,
                                             out.rev > 0 /\ ~r.raised),
                                  crawl_running, url,
                                  IndexState(r.pages_col, url))
                   /\ IF r.raised
                      THEN NextUrl([wh EXCEPT !.errors = Append(@, url)])
                      ELSE NextUrl([wh EXCEPT !.processed = @ + 1])
    /\ UNCHANGED <<WEBHOOK_SECRET, crawler, auth_header,
                   now, tombstones, disk, crawl_running, last_crawl_ts, crawl>>

\* ------------------------------------------------------------------------
\* GET /openfeeder (main.py:215-402)
\* ------------------------------------------------------------------------

\* main.py:319, 365, 399  "HIT" if cached else "MISS".
CacheHeader(cached) == IF cached THEN "HIT" ELSE "MISS"

\* A relative path as the value of ?url=.
RelPath(path) == [kind |-> "path", path |-> path]

\* An absolute url of the site as the value of ?url=.
AbsUrl(path) == [kind |-> "abs", path |-> path]

\* The string of a ?url= value, None where the parameter is absent.
UrlString(url) ==
    IF url.kind = "path" THEN url.path
    ELSE IF url.kind = "abs" THEN full_url(url.path)
    ELSE IF url.kind = "empty" THEN ""
    ELSE "None"

\* main.py:372  url if url.startswith("http") else SITE_URL + "/" + url.
resolve(url) ==
    IF url.kind = "abs" THEN UrlString(url) ELSE full_url(url.path)

\* main.py:370-402: single page mode, for ?url= of a relative path or of an
\* absolute url.
content_fetch(request, limit) ==
    /\ Yielded
    /\ LET url       == resolve(request)
           page_meta == get_page_meta(pages_col, url)
           chunks    == get_chunks_for_url(chunks_col, url, limit)
       IN  resp' = IF page_meta = NoMeta
                   THEN [kind |-> "fetch", status |-> 404, url |-> url,
                         request |-> request, limit |-> limit]
                   ELSE [kind |-> "fetch", status |-> 200, url |-> url,
                         request |-> request,
                         rev |-> page_meta.rev, chunks |-> chunks,
                         total_chunks |-> page_meta.chunk_count,
                         returned_chunks |-> Len(chunks), limit |-> limit,
                         cached |-> last_crawl_ts > 0,
                         X_OpenFeeder_Cache |-> CacheHeader(last_crawl_ts > 0)]
    /\ UNCHANGED <<WEBHOOK_SECRET, crawler, auth_header,
                   now, chunks_col, pages_col, tombstones, disk,
                   crawl_running, last_crawl_ts, crawl, wh, client, hist>>

Absent == [kind |-> "absent"]

\* A query parameter sent with no value: "?q=" gives the empty string.
Empty == [kind |-> "empty"]

\* bool(v) of an optional query parameter: None and "" are false.
Truthy(v) == v \notin {Absent, Empty}

Garbage == [kind |-> "garbage"]

\* The values of ?since= and ?until=: a datetime, the token the client
\* kept, or a string that is neither.
ParamValues == {Absent, Garbage, client.token} \cup {isoformat(t) : t \in Times}

INVALID_PARAM == [kind |-> "sync", status |-> 400, code |-> "INVALID_PARAM"]

\* content_sync without the test of until against since (no main.py:270).
content_sync_unordered(since, until, keep) ==
    /\ Yielded
    /\ Truthy(since) \/ Truthy(until)
    /\ LET since_ts == IF Truthy(since) THEN parse_since(since) ELSE None
           until_ts == IF Truthy(until) THEN parse_since(until) ELSE None
           pages    == get_pages_in_range(pages_col, since_ts, until_ts)
           deleted  == IF since_ts # None
                       THEN get_tombstones_since(tombstones, since_ts)
                       ELSE <<>>
           as_of    == isoformat(now)
           token    == encode_sync_token(as_of)
       IN  IF \/ (Truthy(since) /\ since_ts = None)
              \/ (Truthy(until) /\ until_ts = None)
           THEN /\ resp' = INVALID_PARAM
                /\ client' = client
           ELSE /\ resp' = [kind |-> "sync", status |-> 200,
                            request |-> [since |-> since, until |-> until],
                            as_of |-> as_of,
                            sync_token |-> token, since |-> since_ts,
                            until |-> until_ts, added |-> pages.added,
                            updated |-> pages.updated, deleted |-> deleted,
                            X_OpenFeeder_Cache |-> "MISS"]
                /\ client' = IF keep
                             THEN [token |-> token, as_of |-> now, dirty |-> {}]
                             ELSE client
    /\ UNCHANGED <<WEBHOOK_SECRET, crawler, auth_header,
                   now, chunks_col, pages_col, tombstones, disk,
                   crawl_running, last_crawl_ts, crawl, wh, hist>>

\* main.py:256-305: differential sync mode.  keep: the client keeps the
\* token of this response for its next request.
content_sync(since, until, keep) ==
    /\ Yielded
    /\ Truthy(since) \/ Truthy(until)
    /\ LET since_ts == IF Truthy(since) THEN parse_since(since) ELSE None
           until_ts == IF Truthy(until) THEN parse_since(until) ELSE None
           pages    == get_pages_in_range(pages_col, since_ts, until_ts)
           deleted  == IF since_ts # None
                       THEN get_tombstones_since(tombstones, since_ts)
                       ELSE <<>>
           as_of    == isoformat(now)
           token    == encode_sync_token(as_of)
       IN  IF \/ (Truthy(since) /\ since_ts = None)
              \/ (Truthy(until) /\ until_ts = None)
              \/ (since_ts # None /\ until_ts # None /\ until_ts < since_ts)
           THEN /\ resp' = INVALID_PARAM
                /\ client' = client
           ELSE /\ resp' = [kind |-> "sync", status |-> 200,
                            request |-> [since |-> since, until |-> until],
                            as_of |-> as_of,
                            sync_token |-> token, since |-> since_ts,
                            until |-> until_ts, added |-> pages.added,
                            updated |-> pages.updated, deleted |-> deleted,
                            X_OpenFeeder_Cache |-> "MISS"]
                /\ client' = IF keep
                             THEN [token |-> token, as_of |-> now, dirty |-> {}]
                             ELSE client
    /\ UNCHANGED <<WEBHOOK_SECRET, crawler, auth_header,
                   now, chunks_col, pages_col, tombstones, disk,
                   crawl_running, last_crawl_ts, crawl, wh, hist>>

\* The published strings of page records, by their rank in the order of
\* Python strings: 1 is the string "0000" that the sort uses for a record
\* without published, 0 a string below it (such as " 2024-01-05", with a
\* leading space, or "/Date(1704412800000)/"), 2 and 3 two dates in the
\* usual form.  A record without published stores "" and lists None.
SentinelRank == 1

PublishedValues == {None} \cup 0..3

\* indexer.py:292  key=lambda x: x.get("published") or "0000"
SortKey(item) ==
    IF item.published = None THEN SentinelRank ELSE item.published

\* list.sort(key, reverse=True): descending, and stable (items of equal
\* key keep their order).
RECURSIVE SortDescending(_)
SortDescending(items) ==
    IF items = <<>> THEN <<>>
    ELSE LET x      == items[Len(items)]
             sorted == SortDescending(SubSeq(items, 1, Len(items) - 1))
             ahead  == SelectSeq(sorted, LAMBDA y : SortKey(y) >= SortKey(x))
             behind == SelectSeq(sorted, LAMBDA y : SortKey(y) < SortKey(x))
         IN  ahead \o <<x>> \o behind

\* indexer.py:260-297: metadatas are the page records as the collection
\* returns them.
get_all_pages(metadatas, page, limit) ==
    LET items == SortDescending(metadatas)
        start == (page - 1) * limit
        end   == start + limit
    IN  [items |-> SubSeq(items, start + 1,
                          IF end < Len(items) THEN end ELSE Len(items)),
         total |-> Len(metadatas)]

\* The page records of an index: record i has the url i.
Indexes ==
    UNION {{[i \in 1..n |-> [url |-> i, published |-> f[i]]] :
               f \in [1..n -> PublishedValues]} : n \in 0..MaxIndex}

\* main.py:308-322: index mode over the page records metadatas, which stay
\* the same from one request to the next.
content_index(metadatas, page, limit) ==
    /\ Yielded
    /\ resp.kind = "index" => metadatas = resp.metadatas
    /\ LET got         == get_all_pages(metadatas, page, limit)
           ceil        == (got.total + limit - 1) \div limit
           total_pages == IF ceil > 1 THEN ceil ELSE 1
       IN  resp' = [kind |-> "index", status |-> 200,
                    metadatas |-> metadatas, page |-> page, limit |-> limit,
                    total_pages |-> total_pages, items |-> got.items,
                    cached |-> last_crawl_ts > 0,
                    X_OpenFeeder_Cache |-> CacheHeader(last_crawl_ts > 0)]
    /\ UNCHANGED <<WEBHOOK_SECRET, crawler, auth_header,
                   now, chunks_col, pages_col, tombstones, disk,
                   crawl_running, last_crawl_ts, crawl, wh, client, hist>>

\* A non-empty search query.
Text == [kind |-> "text"]

\* n_results is capped at 50 (indexer.py:197).
SEARCH_CAP == 50

\* The cosine distance of a chunk to the query, in halves: 0.5 and 1.5.
\* A query is given by the distance of every chunk of a page to it.
Distances == {1, 3}

Queries == [{full_url("/a"), full_url("/c")} \X (0..(MaxChunks - 1)) -> Distances]

\* indexer.py:209  round(max(0.0, 1.0 - distance), 4), in halves.
Relevance(distance) == IF 2 - distance > 0 THEN 2 - distance ELSE 0

\* The nearest first, as the collection returns the results of a query.
RECURSIVE Nearest(_, _)
Nearest(S, dist) ==
    IF S = {} THEN <<>>
    ELSE LET m == CHOOSE c \in S :
                      \A d \in S :
                          \/ dist[c.url, c.chunk_index] < dist[d.url, d.chunk_index]
                          \/ /\ dist[c.url, c.chunk_index] = dist[d.url, d.chunk_index]
                             /\ c.id <= d.id
         IN  <<m>> \o Nearest(S \ {m}, dist)

\* indexer.py:180-220: the min(limit, 50) chunks nearest to the query,
\* among those of url_filter if it is given.
search(cc, dist, limit, url_filter) ==
    LET where   == IF url_filter \notin {"None", ""}
                   THEN {c \in cc : c.url = url_filter} ELSE cc
        n       == IF limit < SEARCH_CAP THEN limit ELSE SEARCH_CAP
        nearest == Nearest(where, dist)
        results == SubSeq(nearest, 1, IF n < Len(nearest) THEN n
                                      ELSE Len(nearest))
    IN  [i \in 1..Len(results) |->
            [chunk_id |-> results[i].id, url |-> results[i].url,
             relevance |-> Relevance(dist[results[i].url,
                                          results[i].chunk_index])]]

NOT_FOUND(mode, request) ==
    [kind |-> mode, status |-> 404, code |-> "NOT_FOUND", request |-> request]

\* content_search that does not filter on min_score (no main.py:327-328).
content_search_unfiltered(dist, url, limit, min_score) ==
    /\ Yielded
    /\ LET results == search(chunks_col, dist, limit, UrlString(url))
           request == [dist |-> dist, url |-> url, limit |-> limit,
                       min_score |-> min_score]
       IN  resp' = IF results = <<>> THEN NOT_FOUND("search", request)
                   ELSE [kind |-> "search", status |-> 200,
                         request |-> request, url |-> results[1].url,
                         chunks |-> [i \in 1..Len(results) |->
                                       [id |-> results[i].chunk_id,
                                        relevance |-> results[i].relevance]],
                         cached |-> last_crawl_ts > 0,
                         X_OpenFeeder_Cache |-> CacheHeader(last_crawl_ts > 0)]
    /\ UNCHANGED <<WEBHOOK_SECRET, crawler, auth_header,
                   now, chunks_col, pages_col, tombstones, disk,
                   crawl_running, last_crawl_ts, crawl, wh, client, hist>>

\* main.py:325-368: search mode, for a non-empty q whose embedding is at
\* the distances dist from the chunks.
content_search(dist, url, limit, min_score) ==
    /\ Yielded
    /\ LET found   == search(chunks_col, dist, limit, UrlString(url))
           results == IF min_score > 0
                      THEN SelectSeq(found, LAMBDA r : r.relevance >= min_score)
                      ELSE found
           request == [dist |-> dist, url |-> url, limit |-> limit,
                       min_score |-> min_score]
       IN  resp' = IF results = <<>> THEN NOT_FOUND("search", request)
                   ELSE [kind |-> "search", status |-> 200,
                         request |-> request, url |-> results[1].url,
                         chunks |-> [i \in 1..Len(results) |->
                                       [id |-> results[i].chunk_id,
                                        relevance |-> results[i].relevance]],
                         cached |-> last_crawl_ts > 0,
                         X_OpenFeeder_Cache |-> CacheHeader(last_crawl_ts > 0)]
    /\ UNCHANGED <<WEBHOOK_SECRET, crawler, auth_header,
                   now, chunks_col, pages_col, tombstones, disk,
                   crawl_running, last_crawl_ts, crawl, wh, client, hist>>

\* main.py:256, 308, 325, 372: the branch the handler takes.  With url
\* absent and q empty it passes the index and the search branch and
\* evaluates url.startswith on None.
content_mode(url, q, since, until) ==
    IF (Truthy(since) \/ Truthy(until)) /\ ~Truthy(q) THEN "sync"
    ELSE IF url = Absent /\ q = Absent THEN "index"
    ELSE IF Truthy(q) THEN "search"
    ELSE IF url = Absent THEN "AttributeError"
    ELSE "fetch"

\* main.py:165-169: the middleware sets X-OpenFeeder on the response that
\* call_next returns.  An exception of the handler is raised by call_next
\* and passes through the middleware to the server, which answers 500 with
\* headers of its own.
add_openfeeder_headers(headers, raised) ==
    IF raised THEN {} ELSE headers \cup {<<"X-OpenFeeder", "1.0">>}

\* main.py:215-402: GET /openfeeder.  The response carries the request, the
\* branch taken, the status and the shape of the body: "sync", "index",
\* "page" (search and fetch), "error" (the envelope of _error_response), or
\* "internal_server_error" (the answer of the server to an exception of
\* the handler).
content(url, q, since, until) ==
    /\ Yielded
    /\ LET mode     == content_mode(url, q, since, until)
           since_ts == IF Truthy(since) THEN parse_since(since) ELSE None
           until_ts == IF Truthy(until) THEN parse_since(until) ELSE None
           invalid  == \/ (Truthy(since) /\ since_ts = None)
                       \/ (Truthy(until) /\ until_ts = None)
                       \/ (since_ts # None /\ until_ts # None
                             /\ until_ts < since_ts)
           matching == {c \in chunks_col :
                           Truthy(url) => c.url = UrlString(url)}
           found    == /\ url.kind = "path"
                       /\ get_page_meta(pages_col, full_url(url.path)) # NoMeta
           answer(status, shape) ==
               [kind |-> "content",
                request |-> [url |-> url, q |-> q, since |-> since,
                             until |-> until],
                mode |-> mode, status |-> status, shape |-> shape,
                headers |-> add_openfeeder_headers(
                    IF shape = "sync"
                    THEN {<<"X-OpenFeeder-Cache", "MISS">>}
                    ELSE IF shape \in {"index", "page"}
                    THEN {<<"X-OpenFeeder-Cache",
                            CacheHeader(last_crawl_ts > 0)>>}
                    ELSE {},
                    shape = "internal_server_error")]
       IN  resp' =
             CASE mode = "sync" ->
                    IF invalid THEN answer(400, "error")
                    ELSE answer(200, "sync")
               [] mode = "index" -> answer(200, "index")
               [] mode = "search" ->
                    IF matching = {} THEN answer(404, "error")
                    ELSE answer(200, "page")
               [] mode = "fetch" ->
                    IF found THEN answer(200, "page")
                    ELSE answer(404, "error")
               [] OTHER -> answer(500, "internal_server_error")
    /\ UNCHANGED <<WEBHOOK_SECRET, crawler, auth_header,
                   now, chunks_col, pages_col, tombstones, disk,
                   crawl_running, last_crawl_ts, crawl, wh, client, hist>>

\* ------------------------------------------------------------------------
\* The embedded adapter (adapters/fastapi/openfeeder_fastapi/router.py)
\* ------------------------------------------------------------------------

\* The longest value of ?url= that is tried, in characters after the scheme.
MaxLen == 5

\* The characters of a url value.  A value is a sequence of them, with the
\* scheme "https:" as one element in front of it if it has one.
Chars == {"/", ".", "a", ";", "["}

Strings(n) == UNION {[1..k -> Chars] : k \in 0..n}

RawUrls == Strings(MaxLen) \cup {<<"https:">> \o u : u \in Strings(MaxLen)}

\* str.find(ch, start) on 1-based positions: 0 if there is none.
Find(u, ch, start) ==
    LET found == {i \in start..Len(u) : u[i] = ch}
    IN  IF found = {} THEN 0 ELSE CHOOSE i \in found : \A j \in found : i <= j

\* str.rfind(ch): 0 if there is none.
RFind(u, ch) ==
    LET found == {i \in 1..Len(u) : u[i] = ch}
    IN  IF found = {} THEN 0 ELSE CHOOSE i \in found : \A j \in found : i >= j

\* urllib.parse.urlparse(raw): the scheme is split off, "//" opens a netloc
\* that ends at the next "/", a "[" in the netloc raises ValueError, and the
\* parameters after the ";" of the last segment are split from the path.
urlparse(raw) ==
    LET url    == IF raw # <<>> /\ raw[1] = "https:" THEN Tail(raw) ELSE raw
        hasloc == Len(url) >= 2 /\ url[1] = "/" /\ url[2] = "/"
        delim  == IF Find(url, "/", 3) = 0 THEN Len(url) + 1
                  ELSE Find(url, "/", 3)
        netloc == IF hasloc THEN SubSeq(url, 3, delim - 1) ELSE <<>>
        rest   == IF hasloc THEN SubSeq(url, delim, Len(url)) ELSE url
        i      == IF RFind(rest, "/") > 0
                  THEN Find(rest, ";", RFind(rest, "/"))
                  ELSE Find(rest, ";", 1)
    IN  [raised |-> Find(netloc, "[", 1) > 0,
         netloc |-> netloc,
         path   |-> IF i = 0 THEN rest ELSE SubSeq(rest, 1, i - 1)]

\* str.rstrip("/")
RECURSIVE rstrip(_)
rstrip(u) ==
    IF u # <<>> /\ u[Len(u)] = "/" THEN rstrip(SubSeq(u, 1, Len(u) - 1))
    ELSE u

\* ".." in path
HasDotDot(path) ==
    \E i \in 1..(Len(path) - 1) : path[i] = "." /\ path[i + 1] = "."

\* The results of sanitize_url_param: a path, None, or the ValueError of
\* urlparse.
Sanitized(path) == [kind |-> "path", path |-> path]

Rejected == [kind |-> "None", path |-> <<>>]

Raised == [kind |-> "ValueError", path |-> <<>>]

\* sanitize_url_param that strips no trailing slash (router.py:79 without
\* rstrip).
sanitize_url_param_keeping_slash(raw) ==
    IF raw = <<>> THEN Rejected
    ELSE IF urlparse(raw).raised THEN Raised
    ELSE LET path == IF urlparse(raw).path = <<>> THEN <<"/">>
                     ELSE urlparse(raw).path
         IN  IF HasDotDot(path) THEN Rejected ELSE Sanitized(path)

\* router.py:72-82
sanitize_url_param(raw) ==
    IF raw = <<>> THEN Rejected
    ELSE IF urlparse(raw).raised THEN Raised
    ELSE LET path == IF rstrip(urlparse(raw).path) = <<>> THEN <<"/">>
                     ELSE rstrip(urlparse(raw).path)
         IN  IF HasDotDot(path) THEN Rejected ELSE Sanitized(path)

\* What the get_item of the host application does with a path.
Items == {"item", "None", "raises"}

\* router.py:186-238: single page mode of the adapter, for a url parameter
\* that is given.  get_item is the sequence of the paths it was called with.
adapter_content(url, item) ==
    /\ LET normalized_url == sanitize_url_param(url)
           answer(status, code, called) ==
               [kind |-> "adapter", request |-> url, status |-> status,
                code |-> code, get_item |-> called]
       IN  resp' =
             CASE normalized_url = Raised ->
                    answer(500, "Internal Server Error", <<>>)
               [] normalized_url = Rejected ->
                    answer(400, "INVALID_URL", <<>>)
               [] OTHER ->
                    LET called == <<normalized_url.path>>
                    IN  CASE item = "raises" ->
                               answer(500, "INTERNAL_ERROR", called)
                          [] item = "None" ->
                               answer(404, "NOT_FOUND", called)
                          [] OTHER -> answer(200, "", called)
    /\ UNCHANGED <<WEBHOOK_SECRET, crawler, auth_header,
                   now, chunks_col, pages_col, tombstones, disk,
                   crawl_running, last_crawl_ts, crawl, wh, client, hist>>

\* tests/test_fastapi_adapter.py:406-424: sanitize_url_param on a value, and
\* on the path it returns for it.
TestSanitizeUrlParam(raw) ==
    /\ LET first == sanitize_url_param(raw)
       IN  resp' = [kind |-> "sanitize", raw |-> raw, first |-> first,
                    second |-> IF first.kind = "path"
                               THEN sanitize_url_param(first.path)
                               ELSE first]
    /\ UNCHANGED <<WEBHOOK_SECRET, crawler, auth_header,
                   now, chunks_col, pages_col, tombstones, disk,
                   crawl_running, last_crawl_ts, crawl, wh, client, hist>>

\* router.py:25-26
DEFAULT_LIMIT == 10

MAX_LIMIT == 100

\* main.py:223  le=50
SIDECAR_MAX_LIMIT == 50

\* A page or limit value that is a decimal number.
Number(n) == [kind |-> "int", n |-> n]

\* The values of ?page= and ?limit=: absent, empty, not a number, and
\* numbers below, at and above the limits.
RawNumbers ==
    {Absent, Empty, Text}
        \cup {Number(n) : n \in {-5, 0, 1, 2, SIDECAR_MAX_LIMIT,
                                 SIDECAR_MAX_LIMIT + 1, MAX_LIMIT,
                                 MAX_LIMIT + 1}}

Max(a, b) == IF a > b THEN a ELSE b

Min(a, b) == IF a < b THEN a ELSE b

\* router.py:241-244  max(1, int(page or "1") or 1), 1 on ValueError.
page_num(page) ==
    IF page.kind = "text" THEN 1
    ELSE LET n == IF page.kind = "int" THEN page.n ELSE 1
         IN  Max(1, IF n = 0 THEN 1 ELSE n)

\* router.py:246-249  min(MAX_LIMIT, max(1, int(limit or "10") or 10)),
\* DEFAULT_LIMIT on ValueError.
limit_num(limit) ==
    IF limit.kind = "text" THEN DEFAULT_LIMIT
    ELSE LET n == IF limit.kind = "int" THEN limit.n ELSE DEFAULT_LIMIT
         IN  Min(MAX_LIMIT, Max(1, IF n = 0 THEN DEFAULT_LIMIT ELSE n))

\* router.py:240-301: index mode of the adapter, with the page and the
\* limit it passes to get_items.
adapter_index(page, limit) ==
    /\ resp' = [kind |-> "paging", endpoint |-> "adapter",
                request |-> [page |-> page, limit |-> limit],
                status |-> 200,
                page |-> page_num(page), limit |-> limit_num(limit)]
    /\ UNCHANGED <<WEBHOOK_SECRET, crawler, auth_header,
                   now, chunks_col, pages_col, tombstones, disk,
                   crawl_running, last_crawl_ts, crawl, wh, client, hist>>

\* An int parameter declared Query(default, ge=, le=): the value the handler
\* receives, or the validation error for which the framework answers 422
\* without calling the handler.  le = 0 stands for no upper limit.
Query(raw, default, ge, le) ==
    IF raw = Absent THEN [ok |-> TRUE, value |-> default]
    ELSE IF raw.kind # "int" THEN [ok |-> FALSE, value |-> default]
    ELSE IF raw.n < ge \/ (le > 0 /\ raw.n > le)
         THEN [ok |-> FALSE, value |-> default]
    ELSE [ok |-> TRUE, value |-> raw.n]

\* main.py:222-223, 308-322: index mode of the sidecar with the page and
\* limit parameters as they are sent.
content_paging(page, limit) ==
    /\ Yielded
    /\ LET p == Query(page, 1, 1, 0)
           l == Query(limit, 10, 1, SIDECAR_MAX_LIMIT)
       IN  resp' = [kind |-> "paging", endpoint |-> "sidecar",
                    request |-> [page |-> page, limit |-> limit],
                    status |-> IF p.ok /\ l.ok THEN 200 ELSE 422,
                    page |-> p.value, limit |-> l.value]
    /\ UNCHANGED <<WEBHOOK_SECRET, crawler, auth_header,
                   now, chunks_col, pages_col, tombstones, disk,
                   crawl_running, last_crawl_ts, crawl, wh, client, hist>>

\* ------------------------------------------------------------------------
\* JSON-LD selection (chunker.py:366-407) and the typed metadata
\* (chunker.py:545-555)
\* ------------------------------------------------------------------------

\* The most @type entries of a candidate and the most candidates of a page.
MaxTypes == 2
MaxCandidates == 2

\* chunker.py:351-359: the "type" written by the mapper of each @type.
_TYPE_MAP ==
    [Recipe |-> "recipe", Article |-> "article", NewsArticle |-> "article",
     BlogPosting |-> "article", Product |-> "product", Event |-> "event",
     WebPage |-> "page"]

\* chunker.py:396
priority ==
    <<"Recipe", "Article", "NewsArticle", "BlogPosting", "Product", "Event">>

\* A candidate is the list of its @type: one entry for a string, none for
\* a candidate without @type.  "Person" has no mapper and no priority.
TypeLists == UNION {[1..k -> DOMAIN _TYPE_MAP \cup {"Person"}] : k \in 0..MaxTypes}

CandidateLists == UNION {[1..k -> TypeLists] : k \in 1..MaxCandidates}

Elements(seq) == {seq[i] : i \in DOMAIN seq}

Least(S) == CHOOSE x \in S : \A y \in S : x <= y

\* chunker.py:395-407: the position of the candidate returned.
_extract_jsonld(candidates) ==
    LET hits(ptype) == {i \in DOMAIN candidates :
                           ptype \in Elements(candidates[i])}
        matched == {k \in DOMAIN priority : hits(priority[k]) # {}}
    IN  IF matched = {} THEN 1
        ELSE Least(hits(priority[Least(matched)]))

\* chunker.py:545-555: the mapper of the first @type entry that has one,
\* _map_default otherwise.
extract_metadata(candidates) ==
    /\ LET ld    == _extract_jsonld(candidates)
           types == candidates[ld]
           known == {i \in DOMAIN types : types[i] \in DOMAIN _TYPE_MAP}
       IN  resp' = [kind |-> "metadata", candidates |-> candidates,
                    ld |-> ld,
                    type |-> IF known = {} THEN "page"
                             ELSE _TYPE_MAP[types[Least(known)]]]
    /\ UNCHANGED <<WEBHOOK_SECRET, crawler, auth_header,
                   now, chunks_col, pages_col, tombstones, disk,
                   crawl_running, last_crawl_ts, crawl, wh, client, hist>>

\* ------------------------------------------------------------------------
\* The length cap of a chunk (chunker.py:86-101)
\* ------------------------------------------------------------------------

\* The cap: 1500 in chunker.py:54, scaled down so that texts exceed it.
_MAX_CHUNK_LEN == 4

\* The longest text.
MaxText == 6

\* A text is the sequence of its characters: a letter, a full stop, a space
\* and a line feed.
Whitespace == {" ", "\n"}

TextChars == {"a", "."} \cup Whitespace

\* chunker.py:667, 682: the text of an element is stripped (and, if it is
\* not code, has every run of whitespace collapsed to one space).
Texts ==
    {t \in UNION {[1..k -> TextChars] : k \in 1..MaxText} :
        t[1] \notin Whitespace /\ t[Len(t)] \notin Whitespace}

\* str.strip()
RECURSIVE strip(_)
strip(t) ==
    IF t = <<>> THEN t
    ELSE IF Head(t) \in Whitespace THEN strip(Tail(t))
    ELSE IF t[Len(t)] \in Whitespace THEN strip(SubSeq(t, 1, Len(t) - 1))
    ELSE t

\* chunker.py:92  re.split(r"(?<=[.!?])\s+", text): the text from start on is
\* cut at every run of whitespace that follows a full stop; i is the
\* character looked at.
RECURSIVE re_split(_, _, _)
re_split(text, start, i) ==
    IF i > Len(text) THEN <<SubSeq(text, start, Len(text))>>
    ELSE IF text[i] \in Whitespace /\ i > 1 /\ text[i - 1] = "."
    THEN LET after == Least({j \in i..(Len(text) + 1) :
                                 j > Len(text) \/ text[j] \notin Whitespace})
         IN  <<SubSeq(text, start, i - 1)>> \o re_split(text, after, after)
    ELSE re_split(text, start, i + 1)

\* chunker.py:93-100: the sentences packed into chunks.
RECURSIVE Pack(_, _, _)
Pack(sentences, current, max_len) ==
    IF sentences = <<>>
    THEN IF strip(current) # <<>> THEN <<strip(current)>> ELSE <<>>
    ELSE LET sentence == Head(sentences)
             full == current # <<>>
                     /\ Len(current) + Len(sentence) + 1 > max_len
             kept == IF full THEN <<>> ELSE current
             next == (IF kept # <<>> THEN kept \o <<" ">> ELSE kept)
                         \o sentence
         IN  (IF full THEN <<strip(current)>> ELSE <<>>)
                 \o Pack(Tail(sentences), next, max_len)

\* chunker.py:86-101
_split_long_text(text, max_len) ==
    IF Len(text) <= max_len THEN <<text>>
    ELSE Pack(re_split(text, 1, 1), <<>>, max_len)

\* chunker.py:699: the chunks of the text of one element.
chunk_html(text) ==
    /\ resp' = [kind |-> "chunks", text |-> text,
                chunks |-> _split_long_text(text, _MAX_CHUNK_LEN)]
    /\ UNCHANGED <<WEBHOOK_SECRET, crawler, auth_header,
                   now, chunks_col, pages_col, tombstones, disk,
                   crawl_running, last_crawl_ts, crawl, wh, client, hist>>

\* ------------------------------------------------------------------------
\* The full crawl (main.py:92-122) and its triggers
\* ------------------------------------------------------------------------

\* main.py:142  the interval job of the scheduler fires.
interval_job ==
    /\ Yielded
    /\ crawl["interval"].pc \in {"off", "skipped"}
    /\ crawl' = [crawl EXCEPT !["interval"].pc = "scheduled"]
    /\ resp' = NoResp
    /\ UNCHANGED <<WEBHOOK_SECRET, crawler, auth_header,
                   now, chunks_col, pages_col, tombstones, disk,
                   crawl_running, last_crawl_ts, wh, client, hist>>

\* POST /crawl that does not look at the flag (no main.py:547-548).
trigger_crawl_unguarded ==
    /\ Yielded
    /\ crawl["manual"].pc \in {"off", "skipped"}
    /\ resp' = [kind |-> "crawl", status |-> "crawl_started"]
    /\ crawl' = [crawl EXCEPT !["manual"].pc = "scheduled"]
    /\ UNCHANGED <<WEBHOOK_SECRET, crawler, auth_header,
                   now, chunks_col, pages_col, tombstones, disk,
                   crawl_running, last_crawl_ts, wh, client, hist>>

\* main.py:544-550  POST /crawl
trigger_crawl ==
    /\ Yielded
    /\ IF crawl_running
       THEN /\ resp' = [kind |-> "crawl", status |-> "already_running"]
            /\ crawl' = crawl
       ELSE /\ crawl["manual"].pc \in {"off", "skipped"}
            /\ resp' = [kind |-> "crawl", status |-> "crawl_started"]
            /\ crawl' = [crawl EXCEPT !["manual"].pc = "scheduled"]
    /\ UNCHANGED <<WEBHOOK_SECRET, crawler, auth_header,
                   now, chunks_col, pages_col, tombstones, disk,
                   crawl_running, last_crawl_ts, wh, client, hist>>

\* run_crawl entered without the test of the flag (main.py:99-101 left out).
run_crawl_start_unguarded(k) ==
    /\ Yielded
    /\ crawl[k].pc = "scheduled"
    /\ crawl' = [crawl EXCEPT ![k] = [pc |-> "crawling", pages |-> <<>>,
                                       j |-> 1]]
    /\ crawl_running' = TRUE
    /\ resp' = NoResp
    /\ UNCHANGED <<WEBHOOK_SECRET, crawler, auth_header,
                   now, chunks_col, pages_col, tombstones, disk,
                   last_crawl_ts, wh, client, hist>>

\* main.py:96-104  run_crawl up to its first await.  A run that finds the
\* flag set logs "skipping" and returns.
run_crawl_start(k) ==
    /\ Yielded
    /\ crawl[k].pc = "scheduled"
    /\ IF crawl_running
       THEN /\ crawl' = [crawl EXCEPT ![k].pc = "skipped"]
            /\ crawl_running' = crawl_running
       ELSE /\ crawl' = [crawl EXCEPT ![k] = [pc |-> "crawling",
                                               pages |-> <<>>, j |-> 1]]
            /\ crawl_running' = TRUE
    /\ resp' = NoResp
    /\ UNCHANGED <<WEBHOOK_SECRET, crawler, auth_header,
                   now, chunks_col, pages_col, tombstones, disk,
                   last_crawl_ts, wh, client, hist>>

\* crawler.py:127-147  one GET of crawl() has come back; after the last one
\* crawl() returns and run_crawl goes on to index without yielding.
crawl_get(k, out) ==
    /\ Yielded
    /\ crawl[k].pc = "crawling"
    /\ LET url   == CrawlQueue[crawl[k].j]
           pages == IF out.status = 200
                    THEN Append(crawl[k].pages, ParsedPage(url, out.rev))
                    ELSE crawl[k].pages
       IN  /\ out \in GetOutcomes(url)
           /\ crawl' = [crawl EXCEPT ![k] =
                          IF crawl[k].j < Len(CrawlQueue)
                          THEN [pc |-> "crawling", pages |-> pages,
                                j |-> crawl[k].j + 1]
                          ELSE [pc |-> "indexing", pages |-> pages, j |-> 1]]
           /\ hist' = NoteFetch(hist, url)
    /\ resp' = NoResp
    /\ UNCHANGED <<WEBHOOK_SECRET, crawler, auth_header,
                   now, chunks_col, pages_col, tombstones, disk,
                   crawl_running, last_crawl_ts, wh, client>>

\* crawl() raises (the ValueError of crawler.py:88 or :118): the except and
\* finally clauses of run_crawl (main.py:119-122).
crawl_raises(k) ==
    /\ Yielded
    /\ crawl[k].pc = "crawling"
    /\ crawl' = [crawl EXCEPT ![k] = IdleCrawl]
    /\ crawl_running' = FALSE
    /\ hist' = NoteCrawlEnd(hist)
    /\ resp' = NoResp
    /\ UNCHANGED <<WEBHOOK_SECRET, crawler, auth_header,
                   now, chunks_col, pages_col, tombstones, disk,
                   last_crawl_ts, wh, client>>

\* run_crawl_index that keeps the flag when it fails (no finally clause,
\* main.py:121-122).
run_crawl_index_no_finally(k, outcome) ==
    /\ crawl[k].pc = "indexing"
    /\ LET c == crawl[k]
       IN  IF c.j > Len(c.pages)
           THEN /\ outcome = "ok"
                /\ last_crawl_ts' = now
                /\ crawl_running' = FALSE
                /\ crawl' = [crawl EXCEPT ![k] = IdleCrawl]
                /\ hist' = NoteCrawlEnd(hist)
                /\ UNCHANGED <<chunks_col, pages_col, client>>
           ELSE IF outcome = "parse_raises"
           THEN /\ c.j = 1
                /\ crawl_running' = crawl_running
                /\ crawl' = [crawl EXCEPT ![k] = IdleCrawl]
                /\ hist' = NoteCrawlEnd(hist)
                /\ UNCHANGED <<chunks_col, pages_col, client,
                               last_crawl_ts>>
           ELSE LET page == c.pages[c.j]
                    r    == index_page(chunks_col, pages_col, page, now,
                                       outcome = "index_raises")
                IN  /\ chunks_col' = r.chunks_col
                    /\ pages_col' = r.pages_col
                    /\ client' = MarkDirty(client, page.url)
                    /\ hist' = LET h == NoteIngest(hist, page.url, page.rev,
                                                   now,
                                                   page.rev > 0 /\ ~r.raised)
                               IN  IF r.raised THEN NoteCrawlEnd(h) ELSE h
                    /\ crawl_running' = crawl_running
                    /\ IF r.raised
                       THEN crawl' = [crawl EXCEPT ![k] = IdleCrawl]
                       ELSE crawl' = [crawl EXCEPT ![k].j = @ + 1]
                    /\ UNCHANGED last_crawl_ts
    /\ resp' = NoResp
    /\ UNCHANGED <<WEBHOOK_SECRET, crawler, auth_header,
                   now, tombstones, disk, wh>>

\* main.py:107-122  chunk, index_pages (indexer.py:150-155), last_crawl_ts,
\* and the finally clause.  outcome: "ok", "index_raises" (index_page
\* raised), "parse_raises" (chunk_html raised, before any page is indexed).
run_crawl_index(k, outcome) ==
    /\ crawl[k].pc = "indexing"
    /\ LET c == crawl[k]
       IN  IF c.j > Len(c.pages)
           THEN /\ outcome = "ok"
                /\ last_crawl_ts' = now
                /\ crawl_running' = FALSE
                /\ crawl' = [crawl EXCEPT ![k] = IdleCrawl]
                /\ hist' = NoteCrawlEnd(hist)
                /\ UNCHANGED <<chunks_col, pages_col, client>>
           ELSE IF outcome = "parse_raises"
           THEN /\ c.j = 1
                /\ crawl_running' = FALSE
                /\ crawl' = [crawl EXCEPT ![k] = IdleCrawl]
                /\ hist' = NoteCrawlEnd(hist)
                /\ UNCHANGED <<chunks_col, pages_col, client,
                               last_crawl_ts>>
           ELSE LET page == c.pages[c.j]
                    r    == index_page(chunks_col, pages_col, page, now,
                                       outcome = "index_raises")
                IN  /\ chunks_col' = r.chunks_col
                    /\ pages_col' = r.pages_col
                    /\ client' = MarkDirty(client, page.url)
                    /\ hist' = LET h == NoteIngest(hist, page.url, page.rev,
                                                   now,
                                                   page.rev > 0 /\ ~r.raised)
                               IN  IF r.raised THEN NoteCrawlEnd(h) ELSE h
                    /\ IF r.raised
                       THEN /\ crawl_running' = FALSE
                            /\ crawl' = [crawl EXCEPT ![k] = IdleCrawl]
                       ELSE /\ crawl_running' = crawl_running
                            /\ crawl' = [crawl EXCEPT ![k].j = @ + 1]
                    /\ UNCHANGED last_crawl_ts
    /\ resp' = NoResp
    /\ UNCHANGED <<WEBHOOK_SECRET, crawler, auth_header,
                   now, tombstones, disk, wh>>

\* ------------------------------------------------------------------------
\* The crawler (crawler.py)
\* ------------------------------------------------------------------------

\* A URL or an href as urlparse splits it.  A relative href has no netloc;
\* the netloc "[" is that of a malformed URL such as "http://[", on which
\* urlparse raises ValueError("Invalid IPv6 URL").
Url(netloc, path, fragment) ==
    [netloc |-> netloc, path |-> path, fragment |-> fragment]

ValueError == [raised |-> "ValueError"]

\* SITE_URL as the crawler is given it, and another site.
SiteUrl == Url("example.com", "", "")
OtherUrl(path) == Url("other.example", path, "")

\* The paths of the site's pages, enough of them to fill a sitemap.
SitePaths == <<"/a", "/c", "/gone", "/old", "/b", "/d">>

\* urllib.parse.urljoin(base, href)
urljoin(base, href) ==
    IF href.netloc = "[" THEN ValueError
    ELSE IF href.netloc = "" THEN Url(base.netloc, href.path, href.fragment)
    ELSE href

\* crawler.py:40-42
_is_same_origin(base, candidate) == candidate.netloc = base.netloc

\* crawler.py:45-50: urldefrag parses the url only if it has a "#"; the
\* trailing slash of a path below the root is stripped.
_normalise_url(url) ==
    IF url.fragment # "" /\ url.netloc = "[" THEN ValueError
    ELSE Url(url.netloc, IF url.path = "/a/" THEN "/a" ELSE url.path, "")

\* crawler.py:54-57
_SKIP_EXTENSIONS(url) == url.path \in {"/logo.png"}

\* crawler.py:82-95: the links of a page, given the hrefs of its a tags; the
\* ValueError of urljoin is not caught.
RECURSIVE _extract_links(_, _)
_extract_links(hrefs, base_url) ==
    IF hrefs = <<>> THEN [raised |-> FALSE, links |-> <<>>]
    ELSE LET absolute == urljoin(base_url, Head(hrefs))
             rest     == _extract_links(Tail(hrefs), base_url)
         IN  IF absolute = ValueError \/ rest.raised
             THEN [raised |-> TRUE, links |-> <<>>]
             ELSE LET normalised == _normalise_url(absolute)
                  IN  IF /\ _is_same_origin(base_url, normalised)
                         /\ ~_SKIP_EXTENSIONS(normalised)
                      THEN [rest EXCEPT !.links = <<normalised>> \o @]
                      ELSE rest

\* What a site answers at /sitemap.xml: nothing usable (a status other than
\* 200, a failed GET, XML that does not parse), or a document with its
\* sm:sitemap/sm:loc and sm:url/sm:loc entries.
NoSitemap == [ok |-> FALSE, sitemaps |-> <<>>, locs |-> <<>>]
Sitemap(sitemaps, locs) == [ok |-> TRUE, sitemaps |-> sitemaps, locs |-> locs]

\* The sitemaps of the two sites, by netloc.
Webs ==
    LET web(site, other) == [n \in {"example.com", "other.example"} |->
                                IF n = "example.com" THEN site ELSE other]
    IN  { web(NoSitemap, NoSitemap),
          web(Sitemap(<<>>, <<Url("example.com", "/a", ""), OtherUrl("/x")>>),
              NoSitemap),
          web(Sitemap(<<>>, [i \in 1..(2 * MAX_PAGES) |->
                               Url("example.com", SitePaths[i], "")]),
              NoSitemap),
          web(Sitemap(<<OtherUrl("/sitemap-1.xml")>>, <<>>),
              Sitemap(<<>>, <<Url("example.com", "/c", "")>>)),
          web(Sitemap(<<Url("example.com", "/sitemap-posts.xml", "")>>,
                      <<Url("example.com", "/c", "")>>),
              NoSitemap),
          web(Sitemap(<<>>, <<Url("[", "", "x")>>), NoSitemap) }

\* crawler.py:60-79: the urls found, and the GETs issued.  The sitemap
\* fetched is always <origin of site_url>/sitemap.xml, also for the entry
\* of a sitemap index; everything is inside the try, so that the
\* RecursionError of a sitemap index that leads back to itself ends the
\* innermost call with what it has.
RECURSIVE _fetch_sitemap(_, _, _), FetchSitemaps(_, _, _)
_fetch_sitemap(web, site_url, depth) ==
    LET sitemap_url == urljoin(site_url, Url("", "/sitemap.xml", ""))
    IN  IF depth > RecursionLimit \/ sitemap_url = ValueError
        THEN [urls |-> <<>>, fetched |-> {}]
        ELSE LET doc == web[sitemap_url.netloc]
                 sub == FetchSitemaps(web, doc.sitemaps, depth + 1)
             IN  IF ~doc.ok THEN [urls |-> <<>>, fetched |-> {sitemap_url}]
                 ELSE [urls |-> sub.urls \o doc.locs,
                       fetched |-> {sitemap_url} \cup sub.fetched]

\* crawler.py:70-72: the loop over the entries of a sitemap index.
FetchSitemaps(web, sitemaps, depth) ==
    IF sitemaps = <<>> THEN [urls |-> <<>>, fetched |-> {}]
    ELSE LET first == _fetch_sitemap(web, Head(sitemaps), depth)
             rest  == FetchSitemaps(web, Tail(sitemaps), depth)
         IN  [urls |-> first.urls \o rest.urls,
              fetched |-> first.fetched \cup rest.fetched]

\* The document served at the url of an entry of a sitemap index: a urlset
\* with one page of the origin of the entry.
ChildSitemap(url) == Sitemap(<<>>, <<Url(url.netloc, "/d", "")>>)

\* crawler.py:117-121: the sitemap urls enter the queue and the visited
\* set; _normalise_url is not inside a try.
RECURSIVE Seed(_, _, _)
Seed(sitemap_urls, queue, visited) ==
    IF sitemap_urls = <<>>
    THEN [queue |-> queue, visited |-> visited, raised |-> FALSE]
    ELSE LET normalised == _normalise_url(Head(sitemap_urls))
         IN  IF normalised = ValueError
             THEN [queue |-> queue, visited |-> visited, raised |-> TRUE]
             ELSE IF normalised \notin visited
             THEN Seed(Tail(sitemap_urls), Append(queue, normalised),
                       visited \cup {normalised})
             ELSE Seed(Tail(sitemap_urls), queue, visited)

\* crawler.py:153-156: the links of a page enter the queue while the
\* visited set holds fewer than 2 * max_pages urls.
RECURSIVE Discover(_, _, _, _)
Discover(links, queue, visited, max_pages) ==
    IF links = <<>> THEN [queue |-> queue, visited |-> visited]
    ELSE IF Head(links) \notin visited /\ Cardinality(visited) < max_pages * 2
    THEN Discover(Tail(links), Append(queue, Head(links)),
                  visited \cup {Head(links)}, max_pages)
    ELSE Discover(Tail(links), queue, visited, max_pages)

\* crawler.py:106-129: crawl(SITE_URL, MAX_PAGES) is called, fetches the
\* sitemaps and seeds the queue; the root goes to the front.
crawl_call(web) ==
    /\ crawler.pc = "idle"
    /\ LET sm     == _fetch_sitemap(web, SiteUrl, 1)
           seeded == Seed(sm.urls, <<>>, {})
           root   == _normalise_url(SiteUrl)
       IN  IF seeded.raised
           THEN crawler' = [crawler EXCEPT !.pc = "raised",
                                           !.fetched = sm.fetched]
           ELSE crawler' =
                   [pc |-> "loop",
                    queue |-> IF root \notin seeded.visited
                              THEN <<root>> \o seeded.queue
                              ELSE seeded.queue,
                    visited |-> seeded.visited \cup {root},
                    idx |-> 0, pages |-> <<>>, errors |-> <<>>,
                    fetched |-> sm.fetched]
    /\ UNCHANGED <<now, chunks_col, pages_col, tombstones, disk,
                   crawl_running, last_crawl_ts, crawl, wh, client, hist,
                   resp, WEBHOOK_SECRET, auth_header>>

\* The hrefs a page can hold.
LinkLists ==
    { <<>>,
      <<Url("", "/a", ""), Url("", "/c", "top"), OtherUrl("/x"),
        Url("", "/logo.png", "")>>,
      <<Url("", "/gone", ""), Url("", "/a/", ""), Url("", "/old", ""),
        Url("", "/b", ""), Url("", "/d", "")>>,
      <<Url("", "/a", ""), Url("[", "", "")>> }

\* What client.get(url) comes back with: an exception, or the response the
\* client ends on after following redirects (follow_redirects=True).
Responses ==
    {[raises |-> TRUE]}
    \cup {[raises |-> FALSE, redirect |-> "", content_type |-> "image/png",
           status_code |-> 200, hrefs |-> <<>>],
          [raises |-> FALSE, redirect |-> "", content_type |-> "text/html",
           status_code |-> 404, hrefs |-> <<>>],
          [raises |-> FALSE, redirect |-> "other.example",
           content_type |-> "text/html", status_code |-> 200,
           hrefs |-> <<>>]}
    \cup {[raises |-> FALSE, redirect |-> "", content_type |-> "text/html",
           status_code |-> 200, hrefs |-> l] : l \in LinkLists}

\* crawler.py:130-156: one turn of the loop, from the GET of queue[idx] to
\* the links of the page.
crawl_loop(response) ==
    /\ crawler.pc = "loop"
    /\ crawler.idx < Len(crawler.queue)
    /\ Len(crawler.pages) < MAX_PAGES
    /\ LET url  == crawler.queue[crawler.idx + 1]
           next == [crawler EXCEPT !.idx = @ + 1,
                                   !.fetched = @ \cup {url}]
       IN  IF response.raises
           THEN crawler' = [next EXCEPT
                               !.errors = Append(@, <<url, "exception">>)]
           ELSE LET got   == [next EXCEPT !.fetched =
                                 IF response.redirect = "" THEN @
                                 ELSE @ \cup {Url(response.redirect,
                                                  url.path, "")}]
                    links == _extract_links(response.hrefs, url)
                    page  == [url |-> url, html |-> response.hrefs,
                              status |-> response.status_code]
                IN  IF response.content_type # "text/html"
                    THEN crawler' = got
                    ELSE IF response.status_code >= 400
                    THEN crawler' = [got EXCEPT
                                        !.errors = Append(@, <<url, "HTTP">>)]
                    ELSE IF links.raised
                    THEN crawler' = [got EXCEPT !.pc = "raised",
                                                !.pages = Append(@, page)]
                    ELSE LET d == Discover(links.links, got.queue, got.visited,
                                           MAX_PAGES)
                         IN  crawler' = [got EXCEPT
                                            !.pages = Append(@, page),
                                            !.queue = d.queue,
                                            !.visited = d.visited]
    /\ UNCHANGED <<now, chunks_col, pages_col, tombstones, disk,
                   crawl_running, last_crawl_ts, crawl, wh, client, hist,
                   resp, WEBHOOK_SECRET, auth_header>>

\* crawler.py:130, 158-161: the loop ends and crawl() returns its result.
crawl_return ==
    /\ crawler.pc = "loop"
    /\ ~(crawler.idx < Len(crawler.queue) /\ Len(crawler.pages) < MAX_PAGES)
    /\ crawler' = [crawler EXCEPT !.pc = "returned"]
    /\ UNCHANGED <<now, chunks_col, pages_col, tombstones, disk,
                   crawl_running, last_crawl_ts, crawl, wh, client, hist,
                   resp, WEBHOOK_SECRET, auth_header>>

\* ------------------------------------------------------------------------
\* The system
\* ------------------------------------------------------------------------

Next ==
    \/ Tick
    \/ \E header \in Headers, action \in Actions, urls \in UrlLists :
           webhook_update(header, action, urls)
    \/ process_update_start
    \/ \E io \in IOOutcomes : process_update_delete(io)
    \/ \E out \in Outcomes, raises \in BOOLEAN : process_update_upsert(out, raises)
    \/ \E path \in PathSet, limit \in 1..MaxChunks :
           \/ content_fetch(RelPath(path), limit)
           \/ content_fetch(AbsUrl(path), limit)
    \/ \E since, until \in ParamValues, keep \in BOOLEAN :
           content_sync(since, until, keep)
    \/ interval_job
    \/ trigger_crawl
    \/ \E k \in Triggers : run_crawl_start(k)
    \/ \E k \in Triggers, out \in Outcomes : crawl_get(k, out)
    \/ \E k \in Triggers : crawl_raises(k)
    \/ \E k \in Triggers, outcome \in {"ok", "index_raises", "parse_raises"} :
           run_crawl_index(k, outcome)
    \/ \E web \in Webs : crawl_call(web)
    \/ \E response \in Responses : crawl_loop(response)
    \/ crawl_return
    \/ \E metadatas \in Indexes, page \in 1..(MaxIndex + 1), limit \in 1..2 :
           content_index(metadatas, page, limit)
    \/ \E url \in RawUrls, item \in Items : adapter_content(url, item)
    \/ \E page, limit \in RawNumbers :
           adapter_index(page, limit) \/ content_paging(page, limit)
    \/ \E raw \in RawUrls : TestSanitizeUrlParam(raw)
    \/ \E candidates \in CandidateLists : extract_metadata(candidates)
    \/ \E text \in Texts : chunk_html(text)
    \/ \E iso \in Timestamps :
           \E raw \in {iso, encode_sync_token(iso), Garbage} :
               test_sync_token(iso, raw)
    \/ \E dist \in Queries,
          url \in {Absent} \cup {RelPath(p) : p \in PathSet}
                          \cup {AbsUrl(p) : p \in PathSet},
          limit \in 1..MaxChunks, min_score \in 0..2 :
           content_search(dist, url, limit, min_score)
    \/ \E url \in {Absent, Empty} \cup {RelPath(p) : p \in PathSet},
          q \in {Absent, Empty, Text},
          since, until \in {Absent, Empty, Garbage, isoformat(1)} :
           content(url, q, since, until)

Spec == Init /\ [][Next]_vars

\* ------------------------------------------------------------------------
\* The system under restricted environments.  Each one is the system above
\* with some of the requests never made and some of the failures never
\* happening, so that its states can be enumerated.
\* ------------------------------------------------------------------------

\* The paths of the pages the site serves, and what a GET of them returns
\* when the page parses and is indexed without an exception.
Served == {"/a", "/c"}

Page(rev) == [status |-> 200, rev |-> rev]

\* Ingestion against single page reads: the initial crawl of both pages,
\* inline webhook batches for one of them, GET /openfeeder?url=.  The clock
\* stands still and tombstone writes succeed.
NextIndex ==
    \/ \E action \in Actions : webhook_update(NoHeader, action, <<"/c">>)
    \/ process_update_delete("ok")
    \/ \E out \in Outcomes, raises \in BOOLEAN : process_update_upsert(out, raises)
    \/ \E path \in Served, limit \in 1..MaxChunks :
           content_fetch(RelPath(path), limit)
    \/ run_crawl_start("startup")
    \/ \E out \in Outcomes : crawl_get("startup", out)
    \/ \E outcome \in {"ok", "index_raises", "parse_raises"} :
           run_crawl_index("startup", outcome)

SpecIndex == InitWith({"ingests"}) /\ [][NextIndex]_vars

\* Differential sync against inline webhook batches, under a running clock.
\* Every fetched page has one chunk and is indexed without an exception.
NextSync ==
    \/ Tick
    \/ \E action \in Actions, path \in Served : webhook_update(NoHeader, action, <<path>>)
    \/ process_update_delete("ok")
    \/ \E out \in {Page(1), [status |-> 404, rev |-> 0]} :
           process_update_upsert(out, FALSE)
    \/ \E since, until \in ParamValues, keep \in BOOLEAN :
           content_sync(since, until, keep)

SpecSync == InitWith({}) /\ [][NextSync]_vars

\* The first ingest of a url against later ingests and deletes, under a
\* running clock.
NextFirst ==
    \/ Tick
    \/ \E action \in Actions : webhook_update(NoHeader, action, <<"/c">>)
    \/ process_update_delete("ok")
    \/ \E out \in Outcomes, raises \in BOOLEAN : process_update_upsert(out, raises)
    \/ run_crawl_start("startup")
    \/ \E out \in Outcomes : crawl_get("startup", out)
    \/ \E outcome \in {"ok", "index_raises", "parse_raises"} :
           run_crawl_index("startup", outcome)

SpecFirst == InitWith({"first"}) /\ [][NextFirst]_vars

\* The crawl and its three triggers.
NextCrawl ==
    \/ interval_job
    \/ trigger_crawl
    \/ \E k \in Triggers : run_crawl_start(k)
    \/ \E k \in Triggers, out \in Outcomes : crawl_get(k, out)
    \/ \E k \in Triggers : crawl_raises(k)
    \/ \E k \in Triggers, outcome \in {"ok", "index_raises", "parse_raises"} :
           run_crawl_index(k, outcome)

SpecCrawl == InitWith({}) /\ [][NextCrawl]_vars

\* The runs of the startup and the manual trigger, with every way a run can
\* fail.  A GET of the crawler returns or times out (timeout=15) and the
\* indexing runs without yielding, so a run that has started is taken to
\* its end; a task created for run_crawl is run by the event loop.
RunStep ==
    \/ \E k \in {"startup", "manual"} : run_crawl_start(k)
    \/ \E k \in {"startup", "manual"},
          out \in {Page(1), [status |-> 404, rev |-> 0]} : crawl_get(k, out)
    \/ \E k \in {"startup", "manual"} : crawl_raises(k)
    \/ \E k \in {"startup", "manual"},
          outcome \in {"ok", "index_raises", "parse_raises"} :
           run_crawl_index(k, outcome)

NextRun ==
    \/ Tick
    \/ trigger_crawl
    \/ RunStep

SpecRun == InitWith({}) /\ [][NextRun]_vars /\ WF_vars(RunStep)

\* POST /crawl among the runs of the three triggers.
TriggerStep ==
    \/ \E k \in Triggers : run_crawl_start(k)
    \/ \E k \in Triggers, out \in {Page(1), [status |-> 404, rev |-> 0]} :
           crawl_get(k, out)
    \/ \E k \in Triggers : crawl_raises(k)
    \/ \E k \in Triggers, outcome \in {"ok", "index_raises"} :
           run_crawl_index(k, outcome)

NextTrigger ==
    \/ interval_job
    \/ trigger_crawl
    \/ TriggerStep

SpecTrigger == InitWith({}) /\ [][NextTrigger]_vars /\ WF_vars(TriggerStep)

\* Webhook deletes, inline and queued, and the tombstone store, with
\* failing writes.
NextTomb ==
    \/ Tick
    \/ \E urls \in UrlLists : webhook_update(NoHeader, "delete", urls)
    \/ process_update_start
    \/ \E io \in IOOutcomes : process_update_delete(io)

SpecTomb == InitWith({}) /\ [][NextTomb]_vars

\* Webhook batches of one to three urls, inline and queued, against GETs
\* that fail, pages that fail to index and a tombstone directory that cannot
\* be made.  The background task of a queued batch is run and every GET
\* returns (timeout=30), so each step of a batch is eventually taken.
BatchLists ==
    {urls \in UNION {[1..n -> {"/a", "/c", "/gone"}] : n \in 1..3} :
        \A i, j \in DOMAIN urls : i # j => urls[i] # urls[j]}

BatchStep ==
    \/ process_update_start
    \/ \E io \in {"ok", "makedirs_raises"} : process_update_delete(io)
    \/ \E out \in {Page(1), [status |-> 404, rev |-> 0],
                    [status |-> 0, rev |-> 0]}, raises \in BOOLEAN :
           process_update_upsert(out, raises)

NextBatch ==
    \/ \E action \in Actions, urls \in BatchLists :
           webhook_update(NoHeader, action, urls)
    \/ BatchStep

SpecBatch == InitWith({}) /\ [][NextBatch]_vars /\ WF_vars(BatchStep)

\* The batches at and just over the inline limit, against GETs answered 404
\* and a tombstone directory that cannot be made.
QueueStep ==
    \/ process_update_start
    \/ \E io \in {"ok", "makedirs_raises"} : process_update_delete(io)
    \/ \E out \in {Page(1), [status |-> 404, rev |-> 0]} :
           process_update_upsert(out, FALSE)

NextQueue ==
    \/ \E action \in Actions,
          urls \in {l \in BatchLists : Len(l) <= INLINE_LIMIT + 1} :
           webhook_update(NoHeader, action, urls)
    \/ QueueStep

SpecQueue == InitWith({}) /\ [][NextQueue]_vars /\ WF_vars(QueueStep)

\* Webhook requests with every kind of Authorization header, with and
\* without a configured secret.
NextAuth ==
    \/ \E header \in Headers, action \in Actions,
          urls \in {<<"/c">>, <<"/gone", "/c">>} :
           webhook_update(header, action, urls)
    \/ QueueStep

SpecAuth == InitSecret({}, {"", "s3cret"}) /\ [][NextAuth]_vars

\* Calls of crawl() against every sitemap and every answer of the site.
NextCrawler ==
    \/ \E web \in Webs : crawl_call(web)
    \/ \E response \in Responses : crawl_loop(response)
    \/ crawl_return

SpecCrawler == InitWith({}) /\ [][NextCrawler]_vars

\* GET /openfeeder with every combination of url, q, since and until, each
\* absent, empty or with a value, over an index that webhook upserts fill.
NextContent ==
    \/ \E action \in Actions : webhook_update(NoHeader, action, <<"/c">>)
    \/ process_update_delete("ok")
    \/ \E out \in {Page(1), [status |-> 404, rev |-> 0]} :
           process_update_upsert(out, FALSE)
    \/ \E url \in {Absent, Empty, RelPath("/c"), RelPath("/gone")},
          q \in {Absent, Empty, Text},
          since, until \in {Absent, Empty, Garbage, isoformat(1)} :
           content(url, q, since, until)

SpecContent == InitWith({}) /\ [][NextContent]_vars

\* Sync requests with every kind of since and until value: absent, empty,
\* RFC 3339 datetimes, a date without time, strings that parse as nothing,
\* and tokens of each.
SyncValues ==
    {Absent, Empty, Garbage, DateOnly(1), isoformat(1), isoformat(2),
     encode_sync_token(isoformat(2)), encode_sync_token(Garbage)}

NextParams ==
    \/ \E action \in Actions : webhook_update(NoHeader, action, <<"/c">>)
    \/ process_update_delete("ok")
    \/ \E out \in {Page(1), [status |-> 404, rev |-> 0]} :
           process_update_upsert(out, FALSE)
    \/ \E since, until \in SyncValues, keep \in BOOLEAN :
           content_sync(since, until, keep)

SpecParams == InitWith({}) /\ [][NextParams]_vars

\* Index mode over every index of up to MaxIndex page records, with every
\* page number up to one beyond the last.
NextListing ==
    \E metadatas \in Indexes, page \in 1..(MaxIndex + 1), limit \in 1..2 :
        content_index(metadatas, page, limit)

SpecListing == InitWith({}) /\ [][NextListing]_vars

\* Searches with and without a url filter and a minimum score, over an
\* index that webhook upserts of two pages fill.  One query is asked in a
\* behaviour, with varying filters, limits and minimum scores.
SearchUrls ==
    {Absent, RelPath("/c"), AbsUrl("/c"), AbsUrl("/gone")}

NextSearch ==
    \/ \E path \in {"/a", "/c"} : webhook_update(NoHeader, "upsert", <<path>>)
    \/ \E out \in {[status |-> 200, rev |-> MaxChunks],
                    [status |-> 404, rev |-> 0]} :
           process_update_upsert(out, FALSE)
    \/ \E dist \in Queries, url \in SearchUrls, limit \in {1, MaxChunks},
          min_score \in 0..2 :
           /\ resp.kind = "search" => dist = resp.request.dist
           /\ content_search(dist, url, limit, min_score)

SpecSearch == InitWith({}) /\ [][NextSearch]_vars

\* Single page reads and filtered searches, each with the relative and the
\* absolute form of the url, over an index that webhook upserts of two pages
\* fill.  One query is asked in a behaviour.
NextResolve ==
    \/ \E path \in {"/a", "/c"} : webhook_update(NoHeader, "upsert", <<path>>)
    \/ \E out \in {[status |-> 200, rev |-> MaxChunks],
                    [status |-> 404, rev |-> 0]} :
           process_update_upsert(out, FALSE)
    \/ \E path \in {"/a", "/c", "/gone"}, limit \in 1..MaxChunks :
           \/ content_fetch(RelPath(path), limit)
           \/ content_fetch(AbsUrl(path), limit)
    \/ \E dist \in Queries, path \in {"/a", "/c", "/gone"},
          limit \in 1..MaxChunks :
           /\ resp.kind = "search" => dist = resp.request.dist
           /\ \/ content_search(dist, RelPath(path), limit, 0)
              \/ content_search(dist, AbsUrl(path), limit, 0)

SpecResolve == InitWith({}) /\ [][NextResolve]_vars

\* GET /openfeeder in its four modes before, during and after the startup
\* crawl.  One query is asked in a behaviour.
NextCache ==
    \/ run_crawl_start("startup")
    \/ \E out \in {Page(1), [status |-> 404, rev |-> 0]} :
           crawl_get("startup", out)
    \/ \E outcome \in {"ok", "index_raises"} : run_crawl_index("startup", outcome)
    \/ \E since \in {isoformat(0), isoformat(1)} :
           content_sync(since, Absent, FALSE)
    \/ \E metadatas \in Indexes, page \in 1..2 :
           /\ Len(metadatas) = 1
           /\ content_index(metadatas, page, 1)
    \/ \E path \in Served : content_fetch(RelPath(path), 1)
    \/ \E dist \in Queries :
           /\ resp.kind = "search" => dist = resp.request.dist
           /\ content_search(dist, Absent, 1, 0)

SpecCache == InitWith({}) /\ [][NextCache]_vars

\* The token helpers on every timestamp, and parse_since on every timestamp,
\* every token of one, and values that are neither.
NextToken ==
    \E iso \in Timestamps,
       raw \in Timestamps \cup {encode_sync_token(t) : t \in Timestamps}
                 \cup {Garbage, encode_sync_token(Garbage)} :
        test_sync_token(iso, raw)

SpecToken == InitWith({}) /\ [][NextToken]_vars

\* One request to the adapter with a url parameter, for every value of the
\* parameter and every behaviour of get_item.
NextAdapter ==
    /\ resp = NoResp
    /\ \E url \in RawUrls, item \in Items : adapter_content(url, item)

SpecAdapter == InitWith({}) /\ [][NextAdapter]_vars

\* sanitize_url_param on every value, and on its result.
NextSanitize ==
    /\ resp = NoResp
    /\ \E raw \in RawUrls : TestSanitizeUrlParam(raw)

SpecSanitize == InitWith({}) /\ [][NextSanitize]_vars

\* One index request to the sidecar or to the adapter, for every value of
\* page and limit.
NextPaging ==
    /\ resp = NoResp
    /\ \E page, limit \in RawNumbers :
           \/ adapter_index(page, limit)
           \/ page # Empty /\ limit # Empty /\ content_paging(page, limit)

SpecPaging == InitWith({}) /\ [][NextPaging]_vars

\* Webhook batches for a page against the startup crawl, which fetches that
\* page first and another page after it.
NextRace ==
    \/ \E action \in Actions : webhook_update(NoHeader, action, <<"/a">>)
    \/ process_update_delete("ok")
    \/ \E out \in {Page(1), Page(2), [status |-> 404, rev |-> 0]} :
           process_update_upsert(out, FALSE)
    \/ run_crawl_start("startup")
    \/ \E out \in {Page(1), [status |-> 404, rev |-> 0]} :
           crawl_get("startup", out)
    \/ \E outcome \in {"ok", "index_raises"} : run_crawl_index("startup", outcome)

SpecRace == InitWith({"race"}) /\ [][NextRace]_vars

\* A chain of sync tokens against webhook batches and the full crawl, under
\* a running clock.  A fetched page has no chunk or one, and index_page
\* does not raise.
NextChain ==
    \/ Tick
    \/ \E action \in Actions, path \in Served : webhook_update(NoHeader, action, <<path>>)
    \/ process_update_delete("ok")
    \/ \E out \in {Page(0), Page(1)} : process_update_upsert(out, FALSE)
    \/ run_crawl_start("startup")
    \/ \E out \in {Page(1), [status |-> 404, rev |-> 0]} : crawl_get("startup", out)
    \/ run_crawl_index("startup", "ok")
    \/ \E since \in {isoformat(1), client.token}, keep \in BOOLEAN :
           content_sync(since, Absent, keep)

SpecChain == InitWith({}) /\ [][NextChain]_vars

\* The typed metadata of every list of JSON-LD candidates.
NextJsonLd ==
    /\ resp = NoResp
    /\ \E candidates \in CandidateLists : extract_metadata(candidates)

SpecJsonLd == InitWith({}) /\ [][NextJsonLd]_vars

\* The chunks of every text.
NextSplit ==
    /\ resp = NoResp
    /\ \E text \in Texts : chunk_html(text)

SpecSplit == InitWith({}) /\ [][NextSplit]_vars

\* ------------------------------------------------------------------------
\* Properties
\* ------------------------------------------------------------------------

\* A run_crawl that has passed its guard and has not returned.
Running(k) == crawl[k].pc \in {"crawling", "indexing"}

\* C1: at most one run_crawl is in progress at any time, whatever triggered
\* it; the flag is set exactly while one is; and a run that found the flag
\* set has returned with nothing fetched and nothing indexed.
C1_OneCrawlAtATime ==
    /\ Cardinality({k \in Triggers : Running(k)}) <= 1
    /\ crawl_running <=> \E k \in Triggers : Running(k)
    /\ \A k \in Triggers :
           crawl[k].pc = "skipped" => crawl[k].pages = <<>> /\ crawl[k].j = 1

\* A run is in progress and the run of another trigger has been turned away.
C1_Witness ==
    \E k1, k2 \in Triggers :
        /\ k1 # k2
        /\ crawl[k1].pc = "indexing"
        /\ crawl[k1].pages # <<>>
        /\ crawl[k2].pc = "skipped"

\* The texts of the first `limit` chunks of revision rev.
ChunkSet(rev, limit) ==
    {ChunkText(rev, i) : i \in 0..((IF rev < limit THEN rev ELSE limit) - 1)}

\* C2: a fetch of a url that answers 200 returns exactly the chunks (up to
\* its limit) of the last ingest of that url or exactly those of the ingest
\* before it.
C2_FetchOldOrNew ==
    (resp.kind = "fetch" /\ resp.status = 200) =>
        LET got == {resp.chunks[i].text : i \in DOMAIN resp.chunks}
            u   == resp.url
        IN  \/ hist.last[u] # None /\ got = ChunkSet(hist.last[u], resp.limit)
            \/ hist.prev[u] # None /\ got = ChunkSet(hist.prev[u], resp.limit)

\* C3: for every url with a page record, the stored chunks of the url are
\* exactly the chunks 0..chunk_count-1 of the last ingest of the url, with
\* chunk_count the count in the page record.
C3_ChunksMatchPageRecord ==
    \A u \in DOMAIN pages_col :
        {c \in chunks_col : c.url = u} =
            {[id |-> _make_id(u, i), url |-> u, chunk_index |-> i,
              text |-> ChunkText(hist.last[u], i)] :
                 i \in 0..(pages_col[u].chunk_count - 1)}

C5_FirstIndexedAtIsFirstIngest ==
    \A u \in DOMAIN pages_col :
        pages_col[u].first_indexed_at = hist.first[u]

\* C5, amended: the ingest that creates the page record of a url sets its
\* first_indexed_at (and indexed_at) to the instant of the ingest; every
\* step that keeps the record keeps its first_indexed_at and never moves
\* its indexed_at back.
C5_FirstIndexedAtKept ==
    [][\A u \in DOMAIN pages_col' :
          IF u \in DOMAIN pages_col
          THEN /\ pages_col'[u].first_indexed_at = pages_col[u].first_indexed_at
               /\ pages_col'[u].indexed_at >= pages_col[u].indexed_at
          ELSE /\ pages_col'[u].first_indexed_at = now
               /\ pages_col'[u].indexed_at = now]_vars

\* A page has been ingested again at a later instant than its first ingest.
C5_Witness ==
    \E u \in DOMAIN pages_col :
        pages_col[u].first_indexed_at < pages_col[u].indexed_at

\* The instant a ?since= or ?until= value denotes: that of the datetime, or
\* the as_of of the response the token came with.
Denoted(param) ==
    IF param.kind = "iso" THEN param.t
    ELSE IF param.kind = "token" THEN param.payload.t
    ELSE None

UrlsOf(seq) == {seq[i].url : i \in DOMAIN seq}

\* The page records whose indexed_at lies in [S, T], an absent bound open.
PagesInWindow(S, T) ==
    {u \in DOMAIN pages_col :
        /\ S = None \/ pages_col[u].indexed_at >= S
        /\ T = None \/ pages_col[u].indexed_at <= T}

SyncAnswered == resp.kind = "sync" /\ resp.status = 200

\* C6: the pages of added and updated of a sync response are together the
\* page records with indexed_at at or after since (when given) and at or
\* before until (when given), and every page of added has first_indexed_at
\* at or after since.
C6_SyncWindow ==
    SyncAnswered =>
        LET S == Denoted(resp.request.since)
            T == Denoted(resp.request.until)
        IN  /\ UrlsOf(resp.added) \cup UrlsOf(resp.updated) = PagesInWindow(S, T)
            /\ \A u \in UrlsOf(resp.added) :
                   S # None /\ pages_col[u].first_indexed_at >= S

\* A response to both bounds that returns a page as added, another as
\* updated, under an until that is not the present.
C6_Witness ==
    /\ SyncAnswered
    /\ Denoted(resp.request.since) # None
    /\ Denoted(resp.request.until) # None
    /\ resp.added # <<>>
    /\ resp.updated # <<>>

\* The sync request answered by resp carried the token the client kept.
WithKeptToken ==
    /\ SyncAnswered
    /\ client.token.kind = "token"
    /\ resp.request.since = client.token

\* C7 as stated: a request with since = the token of response R returns only
\* pages with indexed_at >= R.as_of and tombstones with deleted_at >=
\* R.as_of, and nothing that did not change after R.
C7_OnlyChangesAfterToken ==
    WithKeptToken =>
        /\ \A u \in UrlsOf(resp.added) \cup UrlsOf(resp.updated) :
               pages_col[u].indexed_at >= client.as_of
        /\ \A i \in DOMAIN resp.deleted :
               fromisoformat_timestamp(resp.deleted[i].deleted_at)
                   >= client.as_of
        /\ (UrlsOf(resp.added) \cup UrlsOf(resp.updated)
                \cup UrlsOf(resp.deleted)) \subseteq client.dirty

\* C7, amended: a request with since = the token of response R returns only
\* pages with indexed_at >= R.as_of and tombstones with deleted_at >=
\* R.as_of; the pages and tombstones stamped before R.as_of are absent.
C7_StampedAtOrAfterToken ==
    WithKeptToken =>
        /\ \A u \in UrlsOf(resp.added) \cup UrlsOf(resp.updated) :
               pages_col[u].indexed_at >= client.as_of
        /\ \A i \in DOMAIN resp.deleted :
               fromisoformat_timestamp(resp.deleted[i].deleted_at)
                   >= client.as_of
        /\ \A u \in DOMAIN pages_col :
               pages_col[u].indexed_at < client.as_of =>
                   u \notin UrlsOf(resp.added) \cup UrlsOf(resp.updated)
        /\ \A i \in DOMAIN tombstones :
               fromisoformat_timestamp(tombstones[i].deleted_at) < client.as_of
                   => tombstones[i].url \notin UrlsOf(resp.deleted)

\* A request with the kept token that leaves out a page and a tombstone
\* older than the token and returns a page changed since.
C7_Witness ==
    /\ WithKeptToken
    /\ \E u \in DOMAIN pages_col : pages_col[u].indexed_at < client.as_of
    /\ \E i \in DOMAIN tombstones : tombstones[i].deleted_at.t < client.as_of
    /\ resp.added \o resp.updated \o resp.deleted # <<>>

DeleteAnswered == resp.kind = "webhook" /\ resp.action = "delete"

NoUrlTwice(ts) == Cardinality(UrlsOf(ts)) = Len(ts)

\* C10: the step that adds the tombstone of a url leaves at most
\* TOMBSTONE_CAP entries and one entry per url, in memory and in the file;
\* it keeps the entry of the url; it drops entries only as far as the cap is
\* exceeded, and no dropped entry is newer than a kept one.
C10_TombstoneCap ==
    [][(wh.pc = "delete" /\ wh' # wh) =>
          LET u       == full_url(wh.urls[wh.i])
              before  == UrlsOf(tombstones) \cup {u}
              dropped == before \ UrlsOf(tombstones')
              excess  == IF Cardinality(before) > TOMBSTONE_CAP
                         THEN Cardinality(before) - TOMBSTONE_CAP ELSE 0
          IN  /\ Len(tombstones') <= TOMBSTONE_CAP
              /\ NoUrlTwice(tombstones')
              /\ Len(_load_tombstones(disk')) <= TOMBSTONE_CAP
              /\ NoUrlTwice(_load_tombstones(disk'))
              /\ u \in UrlsOf(tombstones')
              /\ UrlsOf(tombstones') \subseteq before
              /\ Cardinality(dropped) = excess
              /\ \A i \in DOMAIN tombstones, j \in DOMAIN tombstones' :
                     tombstones[i].url \in dropped =>
                         tombstones[i].deleted_at.t <= tombstones'[j].deleted_at.t
         ]_vars

\* The map is full and an entry the file still holds has been evicted from
\* it, the entry of the url just deleted being kept.
C10_Witness ==
    /\ Len(tombstones) = TOMBSTONE_CAP
    /\ \E i \in DOMAIN disk : disk[i].url \notin UrlsOf(tombstones)
    /\ \E i \in DOMAIN tombstones : tombstones[i].deleted_at.t = 1
    /\ DeleteAnswered /\ resp.status = "ok"
    /\ full_url(resp.urls[1]) \in UrlsOf(tombstones)

\* C11: a step removes the page record of a url only if it is the webhook
\* delete of that url, and it leaves a tombstone of the url; no step of a
\* crawl or of an upsert removes a page record.
C11_RecordRemovedOnlyByDelete ==
    [][\A u \in DOMAIN pages_col \ DOMAIN pages_col' :
          /\ wh.pc = "delete"
          /\ u = full_url(wh.urls[wh.i])
          /\ u \in UrlsOf(tombstones')]_vars

\* A crawl has completed after the last ingest of a page without ingesting
\* it again, and the page record is still there.
C11_Witness ==
    /\ full_url("/c") \in DOMAIN pages_col
    /\ last_crawl_ts > pages_col[full_url("/c")].indexed_at
    /\ crawl["startup"].pc = "off"

\* _process_update is inside its loop over the urls of a batch.
Processing == wh.pc \in {"delete", "fetch"}

\* C12: a batch of at most INLINE_LIMIT urls is answered "ok" when all its
\* urls have been processed, with processed + errors = the number of urls
\* and (for a delete) every url counted as processed deleted; a larger batch
\* is answered "queued", processed 0, errors [], before any of its urls is
\* processed, and is then processed to its last url.
C12_InlineOrQueued ==
    /\ [](resp.kind = "webhook" =>
             IF Len(resp.urls) <= INLINE_LIMIT
             THEN /\ resp.status = "ok"
                  /\ wh.pc = "idle"
                  /\ resp.processed + Len(resp.errors) = Len(resp.urls)
                  /\ \A i \in DOMAIN resp.errors :
                         \E j \in DOMAIN resp.urls :
                             resp.errors[i] = full_url(resp.urls[j])
                  /\ (resp.action = "delete" /\ resp.errors = <<>>) =>
                         \A j \in DOMAIN resp.urls :
                             /\ full_url(resp.urls[j]) \notin DOMAIN pages_col
                             /\ full_url(resp.urls[j]) \in UrlsOf(tombstones)
             ELSE /\ resp.status = "queued"
                  /\ resp.processed = 0
                  /\ resp.errors = <<>>
                  /\ wh.pc = "queued" /\ wh.i = 1 /\ wh.urls = resp.urls
                  /\ wh.processed = 0 /\ wh.errors = <<>>)
    /\ [][(wh.pc # "idle" /\ wh'.pc = "idle") =>
             (Processing /\ wh.i = Len(wh.urls))]_vars
    /\ (wh.pc = "queued") ~> (wh.pc = "idle")

\* A batch over the limit has been answered "queued" with none of its urls
\* processed.
C12_Witness ==
    /\ resp.kind = "webhook" /\ resp.status = "queued"
    /\ Len(resp.urls) = INLINE_LIMIT + 1
    /\ wh.pc = "queued"

\* C13: every step of a batch, whether its url succeeds or fails, goes on to
\* the next url of the batch, or ends the batch if the url was the last;
\* after k urls processed + the number of errors is k, and the response of
\* an inline batch has processed + errors = the number of urls.
C13_EveryUrlAttempted ==
    /\ [](Processing => wh.processed + Len(wh.errors) = wh.i - 1)
    /\ [][(Processing /\ wh' # wh) =>
             IF wh.i < Len(wh.urls)
             THEN /\ wh'.pc = wh.pc
                  /\ wh'.urls = wh.urls
                  /\ wh'.i = wh.i + 1
                  /\ wh'.processed + Len(wh'.errors) = wh.i
             ELSE /\ wh'.pc = "idle"
                  /\ wh.inline =>
                         resp'.processed + Len(resp'.errors) = Len(wh.urls)
         ]_vars

\* The first url of an upsert batch failed, the second was indexed, and the
\* batch is at its third.
C13_Witness ==
    /\ wh.pc = "fetch" /\ wh.i = 3
    /\ wh.errors = <<full_url(wh.urls[1])>>
    /\ wh.processed = 1
    /\ full_url(wh.urls[2]) \in DOMAIN pages_col

\* C14: with a secret configured, a webhook request whose Authorization
\* header does not start with "Bearer " is answered 401 and one whose token
\* differs from the secret 403, and these leave the index, the tombstone
\* store and the batch state unchanged; a batch is started, and the stores
\* change, only under a request with the matching token; with no secret no
\* request is refused.
C14_WebhookAuth ==
    /\ [](resp.kind = "http_error" =>
             /\ WEBHOOK_SECRET # ""
             /\ resp.header = auth_header
             /\ resp.status = IF IsBearer(auth_header) THEN 403 ELSE 401
             /\ Join(auth_header) # "Bearer " \o WEBHOOK_SECRET)
    /\ [][(<<chunks_col, pages_col, tombstones, disk>>' #
               <<chunks_col, pages_col, tombstones, disk>>) => Processing]_vars
    /\ [][(resp'.kind = "http_error") =>
             UNCHANGED <<chunks_col, pages_col, tombstones, disk, wh>>]_vars
    /\ [][(wh.pc = "idle" /\ wh'.pc # "idle") =>
             \/ WEBHOOK_SECRET = ""
             \/ Join(auth_header') = "Bearer " \o WEBHOOK_SECRET]_vars
    /\ [][(auth_header' # auth_header /\ WEBHOOK_SECRET = "") =>
             (resp'.kind # "http_error" /\ wh'.pc # "idle")]_vars

\* With pages indexed and a tombstone stored under the secret, a request
\* with a wrong token has been answered 403.
C14_Witness ==
    /\ WEBHOOK_SECRET = "s3cret"
    /\ resp.kind = "http_error" /\ resp.status = 403
    /\ pages_col # <<>> /\ tombstones # <<>>

\* C15: every URL the crawler has issued a GET for (sitemaps, queue
\* entries, redirect targets) has the origin of SITE_URL.
C15_FetchesSameOriginOnly ==
    \A u \in crawler.fetched : _is_same_origin(SiteUrl, u)

\* C16: the result never holds more than max_pages pages and the visited
\* set never holds more than 2 * max_pages urls.
C16_PagesAndVisitedBounded ==
    /\ Len(crawler.pages) <= MAX_PAGES
    /\ Cardinality(crawler.visited) <= 2 * MAX_PAGES

\* C17: no call of crawl() ends by raising to its caller.
C17_CrawlNeverRaises == crawler.pc # "raised"

\* C18: a run that has set crawl_running clears it, whether the crawl and
\* the indexing succeed or raise, and ends without an exception of its own
\* (its task is back to rest); last_crawl_ts changes only in the step that
\* ends a run all of whose pages were indexed.
C18_FlagClearedAndTimestampOnSuccess ==
    /\ [](crawl_running <=> \E k \in Triggers : Running(k))
    /\ \A k \in {"startup", "manual"} : Running(k) ~> (crawl[k].pc = "off")
    /\ crawl_running ~> ~crawl_running
    /\ [][(last_crawl_ts' # last_crawl_ts) =>
             \E k \in Triggers :
                 /\ crawl[k].pc = "indexing"
                 /\ crawl[k].j > Len(crawl[k].pages)
                 /\ crawl'[k].pc = "off"
                 /\ last_crawl_ts' = now]_vars
    /\ [][\A k \in Triggers :
             (Running(k) /\ crawl'[k].pc = "off"
               /\ ~(crawl[k].pc = "indexing"
                     /\ crawl[k].j > Len(crawl[k].pages))) =>
                 (last_crawl_ts' = last_crawl_ts /\ ~crawl_running')]_vars

\* A run has failed after an earlier one succeeded: the flag is clear and
\* last_crawl_ts is that of the earlier run, before the present instant.
C18_Witness ==
    /\ ~crawl_running
    /\ last_crawl_ts = 1 /\ now = 2
    /\ crawl["manual"].pc = "off" /\ crawl["startup"].pc = "off"
    /\ \E u \in DOMAIN pages_col : {c \in chunks_col : c.url = u} = {}

\* C19: POST /crawl answers already_running exactly when the flag is set as
\* the request is handled, and then schedules nothing; otherwise it answers
\* crawl_started with the run_crawl task scheduled, and a crawl run starts
\* after every crawl_started answer.
C19_TriggerCrawl ==
    /\ [](resp.kind = "crawl" =>
             /\ resp.status \in {"already_running", "crawl_started"}
             /\ resp.status = "already_running" <=> crawl_running
             /\ resp.status = "crawl_started" =>
                    crawl["manual"].pc = "scheduled")
    /\ [][(resp'.kind = "crawl") =>
             /\ resp'.status = "already_running" <=> crawl_running
             /\ crawl_running => crawl' = crawl
             /\ crawl_running' = crawl_running]_vars
    /\ (resp.kind = "crawl" /\ resp.status = "crawl_started")
           ~> (crawl_running /\ \E k \in Triggers : crawl[k].pc = "crawling")

\* POST /crawl has been answered already_running during the run of the
\* startup crawl, after an earlier POST /crawl was answered crawl_started.
C19_Witness ==
    /\ resp.kind = "crawl" /\ resp.status = "already_running"
    /\ crawl["startup"].pc = "crawling"
    /\ crawl["manual"].pc = "skipped"

\* The mode the dispatch rule gives a request: sync when since or until is
\* given without q, otherwise search when q is given, otherwise fetch when
\* url is given, otherwise index.  given: for each parameter, whether a
\* parameter sent empty counts as given.
DispatchRule(request, empty_is_given) ==
    LET given(p) == /\ request[p] # Absent
                    /\ request[p] = Empty => empty_is_given[p]
    IN  IF (given("since") \/ given("until")) /\ ~given("q") THEN "sync"
        ELSE IF given("q") THEN "search"
        ELSE IF given("url") THEN "fetch"
        ELSE "index"

\* C20: every request to the content endpoint is served in the mode of the
\* dispatch rule (under some reading of "given" for the parameters sent
\* empty) and answered with the shape of that mode or an error envelope.
C20_ModeAndShape ==
    resp.kind = "content" =>
        /\ \E empty_is_given \in [{"url", "q", "since", "until"} -> BOOLEAN] :
               resp.mode = DispatchRule(resp.request, empty_is_given)
        /\ resp.shape \in {"error",
                           CASE resp.mode = "sync" -> "sync"
                             [] resp.mode = "index" -> "index"
                             [] OTHER -> "page"}

\* A sync token that decodes: its payload is a timestamp.
ValidToken(v) == v.kind = "token" /\ v.payload.kind \in {"iso", "date"}

\* The instant a since or until value denotes, None if it denotes none.
InstantOf(v) ==
    IF v.kind \in {"iso", "date"} THEN v.t
    ELSE IF ValidToken(v) THEN v.payload.t
    ELSE None

\* until denotes an instant earlier than the one since denotes.
UntilBeforeSince(since, until) ==
    /\ Truthy(since) /\ Truthy(until)
    /\ InstantOf(since) # None /\ InstantOf(until) # None
    /\ InstantOf(until) < InstantOf(since)

\* Every answer 400 INVALID_PARAM carries no added, updated or deleted
\* data, and the step that gives it changes nothing but the response.
RefusedWithoutEffect ==
    [][(resp' = INVALID_PARAM) =>
          /\ DOMAIN resp' \cap {"added", "updated", "deleted"} = {}
          /\ UNCHANGED <<now, chunks_col, pages_col, tombstones, disk,
                         crawl_running, last_crawl_ts, crawl, wh, client,
                         hist, WEBHOOK_SECRET, auth_header, crawler>>]_vars

\* C21: a sync request with a since or until value that is neither an
\* RFC 3339 datetime nor a valid sync token, or with until earlier than
\* since, is not answered 200: it is answered 400 INVALID_PARAM with no
\* data and no change of state.
C21_NotRfc3339Refused ==
    /\ [](SyncAnswered =>
             /\ \A v \in {resp.request.since, resp.request.until} :
                    Truthy(v) => (v.kind = "iso" \/ ValidToken(v))
             /\ ~UntilBeforeSince(resp.request.since, resp.request.until))
    /\ RefusedWithoutEffect

\* C21 (amended): a sync request with a non-empty since or until value that
\* datetime.fromisoformat does not parse and that is not a sync token of a
\* timestamp it parses, or with until earlier than since, is not answered
\* 200: it is answered 400 INVALID_PARAM with no data and no change of
\* state.
C21_UnparseableRefused ==
    /\ [](SyncAnswered =>
             /\ \A v \in {resp.request.since, resp.request.until} :
                    Truthy(v) => InstantOf(v) # None
             /\ ~UntilBeforeSince(resp.request.since, resp.request.until))
    /\ RefusedWithoutEffect

\* A sync request has been refused over an index that holds a page and a
\* tombstone store that holds a tombstone.
C21_Witness ==
    /\ resp = INVALID_PARAM
    /\ pages_col # <<>> /\ tombstones # <<>>

\* The items of pages 1..n of the index mode, one page after the other.
RECURSIVE Listing(_, _, _)
Listing(metadatas, limit, n) ==
    IF n = 0 THEN <<>>
    ELSE Listing(metadatas, limit, n - 1)
         \o get_all_pages(metadatas, n, limit).items

\* C22: index mode reports total_pages = max(1, ceil(total / limit)); pages
\* 1 to total_pages hold every page record exactly once, in descending
\* order of published with the records without published last; a page
\* beyond total_pages is empty.
C22_IndexPagination ==
    resp.kind = "index" =>
        LET total == Len(resp.metadatas)
            all   == Listing(resp.metadatas, resp.limit, resp.total_pages)
        IN  /\ resp.total_pages >= 1
            /\ resp.total_pages * resp.limit >= total
            /\ resp.total_pages > 1 =>
                   (resp.total_pages - 1) * resp.limit < total
            /\ Len(all) = total
            /\ \A i \in 1..total : \E j \in 1..total : all[j].url = i
            /\ \A i, j \in 1..total :
                   i < j =>
                       /\ all[i].published = None => all[j].published = None
                       /\ (all[i].published # None /\ all[j].published # None)
                              => all[i].published >= all[j].published
            /\ resp.page > resp.total_pages => resp.items = <<>>
            /\ resp.page <= resp.total_pages =>
                   resp.items = SubSeq(all, (resp.page - 1) * resp.limit + 1,
                                       IF resp.page * resp.limit < total
                                       THEN resp.page * resp.limit ELSE total)

\* The chunks a search request can match: those of the url filter as it was
\* sent, or all of them.
Candidates(request) ==
    IF Truthy(request.url)
    THEN {c \in chunks_col : c.url = UrlString(request.url)}
    ELSE chunks_col

\* C23: a 200 answer of a search holds at least one and at most
\* min(limit, 50) chunks, each of relevance at or above min_score, in order
\* of non-increasing relevance; the answer is 404 NOT_FOUND exactly when no
\* chunk that the query can match has relevance at or above min_score.
C23_SearchResults ==
    resp.kind = "search" =>
        LET r       == resp.request
            passing == {c \in Candidates(r) :
                           Relevance(r.dist[c.url, c.chunk_index]) >= r.min_score}
        IN  /\ resp.status \in {200, 404}
            /\ resp.status = 404 <=> passing = {}
            /\ resp.status = 404 => resp.code = "NOT_FOUND"
            /\ resp.status = 200 =>
                   /\ Len(resp.chunks) >= 1
                   /\ Len(resp.chunks) <= r.limit /\ Len(resp.chunks) <= 50
                   /\ \A i \in DOMAIN resp.chunks :
                          /\ resp.chunks[i].relevance >= r.min_score
                          /\ \E c \in passing : c.id = resp.chunks[i].id
                   /\ \A i, j \in DOMAIN resp.chunks :
                          i < j => resp.chunks[i].relevance
                                       >= resp.chunks[j].relevance

\* A search with a minimum score and a limit above one has returned one
\* chunk and left out a matching chunk of lower relevance.
C23_Witness ==
    /\ resp.kind = "search" /\ resp.status = 200
    /\ resp.request.min_score = 1 /\ resp.request.limit = MaxChunks
    /\ Len(resp.chunks) = 1
    /\ Cardinality(Candidates(resp.request)) >= 2

\* C24: the chunks of a 200 answer to GET /openfeeder?url=U&limit=n are the
\* first min(n, chunk count) chunks of U, listed in order of chunk_index.
C24_FetchInPageOrder ==
    (resp.kind = "fetch" /\ resp.status = 200) =>
        /\ Len(resp.chunks) <= resp.limit
        /\ \A i \in DOMAIN resp.chunks :
               resp.chunks[i].id = _make_id(resp.url, i - 1)

\* The other form of a url: the absolute url of a relative path and the
\* relative path of an absolute url.
OtherForm(url) ==
    IF url.kind = "path" THEN AbsUrl(url.path) ELSE RelPath(url.path)

\* The page a single page read of url selects, NoMeta for a 404.
FetchSelects(url) == get_page_meta(pages_col, resolve(url))

\* The chunks a search filtered on url can return.
SearchSelects(url) == {c \in chunks_col : c.url = UrlString(url)}

\* C25: a single page read and a filtered search select for a relative url
\* what they select for its absolute form SITE_URL + url: the read answers
\* both with the same page or both with 404, and the search draws its chunks
\* from the same page.
C25_RelativeResolved ==
    /\ resp.kind = "fetch" =>
           /\ FetchSelects(resp.request) = FetchSelects(OtherForm(resp.request))
           /\ resp.url = full_url(resp.request.path)
    /\ resp.kind = "search" =>
           SearchSelects(resp.request.url)
               = SearchSelects(OtherForm(resp.request.url))

\* C26: a 200 answer of the content endpoint, in index, search, fetch and
\* sync mode, carries X-OpenFeeder-Cache: HIT when last_crawl_ts > 0 and
\* MISS otherwise.
C26_CacheHeader ==
    (resp.kind \in {"index", "search", "fetch", "sync"} /\ resp.status = 200)
        => resp.X_OpenFeeder_Cache
               = IF last_crawl_ts > 0 THEN "HIT" ELSE "MISS"

\* C27: every response of GET /openfeeder, an error envelope included,
\* carries X-OpenFeeder: 1.0 and Access-Control-Allow-Origin: *.
C27_ProtocolHeaders ==
    resp.kind = "content" =>
        /\ <<"X-OpenFeeder", "1.0">> \in resp.headers
        /\ <<"Access-Control-Allow-Origin", "*">> \in resp.headers

C29_TraversalRejected ==
    resp.kind = "adapter" =>
        /\ (~urlparse(resp.request).raised
              /\ HasDotDot(urlparse(resp.request).path)) =>
               /\ resp.status = 400 /\ resp.code = "INVALID_URL"
               /\ resp.get_item = <<>>
        /\ \A i \in DOMAIN resp.get_item :
               LET path == resp.get_item[i]
               IN  /\ ~HasDotDot(path)
                   /\ path # <<>>
                   /\ path = <<"/">> \/ path[Len(path)] # "/"

\* An absolute url with ".." in its path has been refused, and a path with
\* a trailing slash has reached get_item without it.
C29_Witness ==
    /\ resp.kind = "adapter"
    /\ \/ /\ resp.request = <<"https:", "/", "/", "a", "/", ".">> \o <<".">>
          /\ resp.status = 400
       \/ /\ resp.request = <<"/", "a", "/">>
          /\ resp.get_item = <<(<<"/", "a">>)>>

\* C30: where sanitize_url_param returns a path for a value, it returns that
\* path for the path.
C30_SanitizeIdempotent ==
    (resp.kind = "sanitize" /\ resp.first.kind = "path")
        => resp.second = resp.first

\* C31: for every page and limit value the content endpoint answers without
\* an error, with a page of at least 1 and a limit within 1..50 (sidecar) or
\* 1..100 (adapter), and with page 1 and limit 10 for a value that is
\* absent or not a number.
C31_PageAndLimitFallBack ==
    resp.kind = "paging" =>
        /\ resp.status = 200
        /\ resp.page >= 1
        /\ resp.limit >= 1
        /\ resp.limit <= IF resp.endpoint = "sidecar" THEN 50 ELSE 100
        /\ resp.request.page.kind # "int" => resp.page = 1
        /\ resp.request.limit.kind # "int" => resp.limit = 10

\* C32: when a full crawl ends, every url for which a webhook delete or
\* upsert was processed during the crawl, after the crawl last fetched the
\* url, has the index state that the webhook left.
C32_CrawlKeepsWebhook ==
    [][(crawl_running /\ ~crawl_running') =>
          \A u \in Urls :
              hist.webhook[u] # Untouched =>
                  IndexState(pages_col', u) = hist.webhook[u]]_vars

\* C33: a sync request with since = the token of response R reports, in
\* added, updated or deleted, every url whose ingest or delete completed
\* after R was produced and that has a page record or a tombstone written
\* after R.
C33_NoChangeLost ==
    WithKeptToken =>
        \A u \in client.dirty :
            (\/ u \in DOMAIN pages_col
             \/ \E i \in DOMAIN tombstones :
                    /\ tombstones[i].url = u
                    /\ tombstones[i].deleted_at.t >= client.as_of)
            => u \in UrlsOf(resp.added) \cup UrlsOf(resp.updated)
                        \cup UrlsOf(resp.deleted)

\* C34: when /sitemap.xml is a sitemap index, the urls seeded by crawl()
\* contain the url entries of every child sitemap the index names.
C34_ChildSitemapsSeeded ==
    [][\A web \in Webs :
          (crawl_call(web) /\ crawler'.pc = "loop") =>
              \A i \in DOMAIN web["example.com"].sitemaps :
                  LET child == ChildSitemap(web["example.com"].sitemaps[i])
                  IN  \A j \in DOMAIN child.locs :
                          _normalise_url(child.locs[j]) \in crawler'.visited]_vars

\* C35: no sync response lists a url both in deleted and in added or
\* updated.
C35_DeletedNotAlsoPresent ==
    SyncAnswered =>
        UrlsOf(resp.deleted)
            \cap (UrlsOf(resp.added) \cup UrlsOf(resp.updated)) = {}

\* C36: every chunk of a search response is a chunk of the page whose url
\* the response reports.
C36_ChunksOfReportedPage ==
    (resp.kind = "search" /\ resp.status = 200) =>
        \A i \in DOMAIN resp.chunks :
            \A c \in chunks_col :
                c.id = resp.chunks[i].id => c.url = resp.url

\* C37: the candidate selected is the first whose @type has the highest
\* priority in Recipe > NewsArticle > Article > BlogPosting > Product >
\* Event, the first candidate if none has one, and the metadata is of the
\* variant of the matched type.
C37_SelectedByPriority ==
    resp.kind = "metadata" =>
        LET order == <<"Recipe", "NewsArticle", "Article", "BlogPosting",
                       "Product", "Event">>
            rank(types) ==
                Least({k \in DOMAIN order : order[k] \in Elements(types)}
                          \cup {Len(order) + 1})
            best == Least({rank(resp.candidates[i]) :
                               i \in DOMAIN resp.candidates})
        IN  /\ resp.ld = Least({i \in DOMAIN resp.candidates :
                                    rank(resp.candidates[i]) = best})
            /\ best <= Len(order) => resp.type = _TYPE_MAP[order[best]]

\* The pieces joined in order with single spaces.
RECURSIVE JoinWithSpaces(_)
JoinWithSpaces(pieces) ==
    IF Len(pieces) <= 1 THEN (IF pieces = <<>> THEN <<>> ELSE pieces[1])
    ELSE pieces[1] \o <<" ">> \o JoinWithSpaces(Tail(pieces))

\* C38: the pieces of the length-cap split are each at most the cap long,
\* every piece but the last ends at a sentence boundary, and the pieces
\* joined in order with single spaces give back the text.
C38_SplitWithinCap ==
    resp.kind = "chunks" =>
        /\ \A i \in DOMAIN resp.chunks : Len(resp.chunks[i]) <= _MAX_CHUNK_LEN
        /\ \A i \in 1..(Len(resp.chunks) - 1) :
               resp.chunks[i][Len(resp.chunks[i])] = "."
        /\ JoinWithSpaces(resp.chunks) = resp.text

====
